---------------------------- MODULE Spec2Model ----------------------------
(***************************************************************************)
(* Model of excelrecreator (src/excelrecreator.go): Recreator.Recreate     *)
(* rebuilds a workbook from a metadata document by issuing calls to the    *)
(* excelize.File collaborator.  Each run is a Recreator (its own file and  *)
(* its own styleMap); the metadata document and the options are inputs.    *)
(*                                                                         *)
(* The collaborator is not part of the repository.  Its operations are     *)
(* modelled by what excelize v2 does on success (NewFile pre-creates       *)
(* "Sheet1"; DeleteSheet leaves the last remaining sheet in place;         *)
(* NewSheet of an existing name returns the existing index; NewStyle hands *)
(* out identifiers in registration order and reuses the identifier of an   *)
(* identical descriptor; SetActiveSheet takes a zero-based position in the *)
(* workbook's sheet list).  Whether a call is rejected is the              *)
(* collaborator's choice: any call that returns an error in excelize may   *)
(* fail, at most MaxFaults times per run, and a rejected call leaves the   *)
(* file unchanged.                                                         *)
(***************************************************************************)
EXTENDS Integers, Sequences, FiniteSets, TLC

(* ------------------------------ bounds -------------------------------- *)
MaxSheets == 2
MaxCells == 2
MaxFaults == 1

(* ------------------------- options / optionals ------------------------- *)
\* A Go nil pointer / nil interface is the empty sequence, a present value
\* the one-element sequence.
Nil == << >>
Some(x) == << x >>
IsNil(p) == p = << >>
Deref(p) == p[1]

\* src/excelrecreator.go:31-40
DefaultSheetName == "Sheet"

DefaultOptions ==
    [ PreserveFormulas       |-> TRUE,
      PreserveStyles         |-> TRUE,
      PreserveDataValidation |-> TRUE,
      SkipEmptyCells         |-> TRUE,
      DefaultSheetName       |-> DefaultSheetName ]

OptionsPool ==
    [ PreserveFormulas       : BOOLEAN,
      PreserveStyles         : BOOLEAN,
      PreserveDataValidation : BOOLEAN,
      SkipEmptyCells         : BOOLEAN,
      DefaultSheetName       : {DefaultSheetName} ]


(* --------------------------- metadata document ------------------------- *)
\* excelmetadata.Metadata as read by the engine: Properties, Sheets (ordered),
\* Styles (map oldID -> StyleDetails), DefinedNames (ordered).

\* A number, exactly: sign, integer part hi * 2^27 + lo (two limbs, so that
\* the 64-bit range is within reach of 32-bit arithmetic), and the decimal
\* digits after the point (no trailing zero).
Limb == 2^27
Num(neg, hi, lo, frac) == [neg |-> neg, hi |-> hi, lo |-> lo, frac |-> frac]
Zero == Num(FALSE, 0, 0, << >>)
\* The number n / 10, for a small natural n.
Tenths(n) == Num(FALSE, 0, n \div 10, IF n % 10 = 0 THEN << >> ELSE << n % 10 >>)

\* A cell value (Go `any`): nil, or a dynamic kind with its number or text.
\* `num` is the number (FloatV(425) is the float64 42.5); `text` is the string,
\* a sequence of characters.
NilV == [kind |-> "nil", num |-> Zero, text |-> << >>]
FloatV(n) == [kind |-> "float64", num |-> Tenths(n), text |-> << >>]
StrV(s) == [kind |-> "string", num |-> Zero, text |-> s]
\* An integer of a Go integer kind ("int", "int32", "int64", "uint64", ...).
IntV(kind, hi, lo) == [kind |-> kind, num |-> Num(FALSE, hi, lo, << >>), text |-> << >>]
Float32V(n) == [kind |-> "float32", num |-> Tenths(n), text |-> << >>]
BoolV(b) == [kind |-> "bool", num |-> IF b THEN Tenths(10) ELSE Zero, text |-> << >>]
\* A time.Time, as the number of seconds it denotes.
TimeV(t) == [kind |-> "time", num |-> Tenths(10 * t), text |-> << >>]

Cell(addr, val, formula, styleID, link) ==
    [Address |-> addr, Value |-> val, Formula |-> formula,
     StyleID |-> styleID, Hyperlink |-> link]

\* Representative cells: value only / formula and value / neither (with a
\* style and a hyperlink) / formula only / a style identifier that is in no
\* style mapping.
CellPool ==
    { Cell("A1", FloatV(425), "", 1, Nil),
      Cell("B2", StrV(<<"a", "b", "c">>), "SUM(A1)", 2, Some([Link |-> "#A1"])),
      Cell("C3", NilV, "", 1, Some([Link |-> "#A1"])),
      Cell("D4", NilV, "A1*2", 0, Some([Link |-> "#A1"])),
      Cell("E5", StrV(<<"4", "2", ".", "5">>), "", 7, Nil) }

\* StyleDetails: every sub-record optional.
StyleDetails(font, fill, border, align, numFmt, prot) ==
    [Font |-> font, Fill |-> fill, Border |-> border, Alignment |-> align,
     NumberFormat |-> numFmt, Protection |-> prot]

BoldStyle ==
    StyleDetails(Some([Bold |-> TRUE]), Nil, << >>, Nil, 0, Nil)
FillStyle ==
    StyleDetails(Nil, Some([Type |-> "pattern", Pattern |-> 1, Color |-> <<"#E0E0E0">>]),
                 <<[Type |-> "left", Color |-> "#000000", Style |-> 1]>>,
                 Some([Horizontal |-> "center"]), 4, Some([Hidden |-> FALSE, Locked |-> TRUE]))
NoColorFillStyle ==
    StyleDetails(Nil, Some([Type |-> "pattern", Pattern |-> 1, Color |-> << >>]),
                 << >>, Nil, 0, Nil)
EmptyStyle ==
    StyleDetails(Nil, Nil, << >>, Nil, 0, Nil)

\* The mappings the cell documents use: identifier 2 mapped, or in no mapping.
CellStylesPool ==
    { (1 :> BoldStyle),
      (1 :> BoldStyle) @@ (2 :> FillStyle) }

\* The mappings the full documents use: two entries.
FullStylesPool ==
    { (1 :> BoldStyle) @@ (2 :> FillStyle),
      (1 :> NoColorFillStyle) @@ (2 :> EmptyStyle) }

Merge(s, e) == [StartCell |-> s, EndCell |-> e]
Validation(range) == [Type |-> "whole", Operator |-> "between", Range |-> range]
SheetProtection(p) == [Protected |-> p, Password |-> "pw"]

SheetMeta(index, name, visible, cols, rows, cells, merges, dvs, prot) ==
    [Index |-> index, Name |-> name, Visible |-> visible,
     ColWidths |-> cols, RowHeights |-> rows, Cells |-> cells,
     MergedCells |-> merges, DataValidations |-> dvs, Protection |-> prot]

\* A sheet with nothing on it, and a sheet with one entry of every kind.
BareSheet(index, name, visible) ==
    SheetMeta(index, name, visible, << >>, << >>, << >>, << >>, << >>, Nil)
FullSheet(index, name, visible, cells) ==
    SheetMeta(index, name, visible, ("A" :> 15), (1 :> 20), cells,
              <<Merge("A1", "B1")>>, <<Validation("C2:C9"), Validation("D2:D9")>>,
              Some(SheetProtection(TRUE)))

DefinedName(n) == [Name |-> n, RefersTo |-> "A!$A$1", Scope |-> ""]

Metadata(sheets, styles, names) ==
    [Properties |-> [Title |-> "T"], Sheets |-> sheets, Styles |-> styles,
     DefinedNames |-> names]

SeqsUpTo(S, n) == UNION { [1..k -> S] : k \in 0..n }

SheetNames == {"", "A", "Sheet1"}
SheetIndexes == {0, 1}

\* Documents that vary the sheets' names, declared indexes and visibility.
HeaderDocs ==
    { Metadata(ss, << >>, << >>) :
        ss \in SeqsUpTo({ BareSheet(i, n, v) :
                            i \in SheetIndexes, n \in SheetNames, v \in BOOLEAN },
                        MaxSheets) }

\* One-sheet documents that vary the cells and the style mapping.
CellDocs ==
    { Metadata(<<SheetMeta(0, "A", TRUE, << >>, << >>, cs, << >>, << >>, Nil)>>,
               st, << >>) :
        cs \in SeqsUpTo(CellPool, MaxCells), st \in CellStylesPool }

\* Documents with every kind of entry on every sheet, and defined names.
FullDocs ==
    { Metadata([k \in 1..n |->
                  FullSheet(k - 1, IF k = 1 THEN "A" ELSE "", k = n,
                            << Cell("B2", StrV(<<"a", "b", "c">>), "SUM(A1)", 2, Some([Link |-> "#A1"])),
                               Cell("A1", FloatV(425), "", 1, Nil) >>)],
               st,
               [j \in 1..d |-> DefinedName(IF j = 1 THEN "N1" ELSE "N2")]) :
        n \in 1..MaxSheets, d \in 0..2, st \in FullStylesPool }

MetadataPool == HeaderDocs \cup CellDocs \cup FullDocs

\* Cell values of every dynamic kind: the kinds the type switch lists, integer
\* kinds it does not list (small, and beyond 2^53 = 2^26 * Limb), and strings
\* that are and are not decimal numerals.
ValuePool ==
    { FloatV(425), Float32V(15),
      IntV("int", 0, 7), IntV("int8", 0, 7), IntV("int16", 0, 7), IntV("int32", 0, 7),
      IntV("int64", 0, 7), IntV("int64", 2^26, 1), IntV("uint64", 2^26, 3),
      BoolV(TRUE), TimeV(60),
      StrV(<<"4", "2", ".", "5">>), StrV(<<"7">>), StrV(<<"-", "3">>),
      StrV(<<"a", "b", "c">>), StrV(<< >>) }

\* One-sheet documents with one cell that carries a value and no formula.
ValueDocs ==
    { Metadata(<<SheetMeta(0, "A", TRUE, << >>, << >>,
                           << Cell("A1", v, "", 1, Nil) >>, << >>, << >>, Nil)>>,
               (1 :> BoldStyle), << >>) :
        v \in ValuePool }


(* ---------------------- the excelize.File collaborator ------------------ *)
\* A finite map with a growing domain.
Put(f, k, v) == (k :> v) @@ f
Has(f, k) == k \in DOMAIN f

\* excelize.NewFile(): one pre-created sheet "Sheet1", which is the active one.
ReservedSheet == "Sheet1"

NewFile ==
    [ props       |-> Nil,
      sheets      |-> <<ReservedSheet>>,
      active      |-> 0,
      hidden      |-> {},
      styles      |-> << >>,
      colWidths   |-> << >>,
      rowHeights  |-> << >>,
      formulas    |-> << >>,
      values      |-> << >>,
      cellStyles  |-> << >>,
      links       |-> << >>,
      merges      |-> << >>,
      validations |-> << >>,
      protection  |-> << >>,
      names       |-> << >> ]

\* Zero-based position of a sheet in the workbook, -1 when there is none.
GetSheetIndex(f, name) ==
    IF \E i \in 1..Len(f.sheets) : f.sheets[i] = name
    THEN (CHOOSE i \in 1..Len(f.sheets) : f.sheets[i] = name) - 1
    ELSE -1

RemoveAt(s, i) == [j \in 1..(Len(s) - 1) |-> IF j < i THEN s[j] ELSE s[j + 1]]

\* DeleteSheet does nothing when the sheet is absent or is the only sheet
\* left; otherwise the active sheet stays the same sheet, or becomes the first.
DeleteSheet(f, name) ==
    LET idx == GetSheetIndex(f, name)
        activeName == f.sheets[f.active + 1]
        rest == RemoveAt(f.sheets, idx + 1)
        g == [f EXCEPT !.sheets = rest, !.hidden = @ \ {name}]
    IN  IF Len(f.sheets) = 1 \/ idx = -1 THEN f
        ELSE [g EXCEPT !.active = IF GetSheetIndex(g, activeName) = -1 THEN 0
                                  ELSE GetSheetIndex(g, activeName)]

\* NewSheet appends the sheet unless one of that name exists already.
NewSheet(f, name) ==
    IF GetSheetIndex(f, name) # -1 THEN f
    ELSE [f EXCEPT !.sheets = Append(@, name)]

\* A sheet is hidden only if another visible sheet remains and it is not the
\* selected tab.
SetSheetVisible(f, name, visible) ==
    LET shown == { i \in 1..Len(f.sheets) : f.sheets[i] \notin f.hidden }
    IN  IF visible THEN [f EXCEPT !.hidden = @ \ {name}]
        ELSE IF Cardinality(shown) > 1 /\ f.sheets[f.active + 1] # name
             THEN [f EXCEPT !.hidden = @ \cup {name}]
             ELSE f

\* SetActiveSheet takes a zero-based workbook position; a negative one means
\* the first sheet and one past the end changes nothing.
SetActiveSheet(f, index) ==
    LET i == IF index < 0 THEN 0 ELSE index
    IN  IF i < Len(f.sheets) THEN [f EXCEPT !.active = i] ELSE f

\* NewStyle returns the identifier of an identical registered descriptor, or
\* registers the descriptor under the next identifier (1, 2, ...).
StyleIDOf(f, style) ==
    IF \E i \in 1..Len(f.styles) : f.styles[i] = style
    THEN CHOOSE i \in 1..Len(f.styles) : f.styles[i] = style
    ELSE Len(f.styles) + 1

NewStyle(f, style) ==
    IF \E i \in 1..Len(f.styles) : f.styles[i] = style THEN f
    ELSE [f EXCEPT !.styles = Append(@, style)]

SetDocProps(f, props) == [f EXCEPT !.props = Some(props)]
SetColWidth(f, sheet, col, width) == [f EXCEPT !.colWidths = Put(@, <<sheet, col>>, width)]
SetRowHeight(f, sheet, row, height) == [f EXCEPT !.rowHeights = Put(@, <<sheet, row>>, height)]
SetCellFormula(f, sheet, addr, formula) == [f EXCEPT !.formulas = Put(@, <<sheet, addr>>, formula)]
SetCellTyped(f, sheet, addr, written) == [f EXCEPT !.values = Put(@, <<sheet, addr>>, written)]
SetCellStyle(f, sheet, addr, styleID) == [f EXCEPT !.cellStyles = Put(@, <<sheet, addr>>, styleID)]
SetCellHyperLink(f, sheet, addr, link) == [f EXCEPT !.links = Put(@, <<sheet, addr>>, link)]
MergeCell(f, sheet, start, end) == [f EXCEPT !.merges = Append(@, <<sheet, start, end>>)]
AddDataValidation(f, sheet, dv) == [f EXCEPT !.validations = Append(@, <<sheet, dv>>)]
ProtectSheet(f, sheet, opts) == [f EXCEPT !.protection = Put(@, sheet, opts)]
SetDefinedName(f, dn) == [f EXCEPT !.names = Append(@, dn)]


(* ------------------------------- state --------------------------------- *)
VARIABLES
    metadata,   \* the metadata document (read-only input, shared by the runs)
    options,    \* the Options (shared by the runs)
    file,       \* file[r]: Recreator.file, the output workbook of run r
    styleMap,   \* styleMap[r]: Recreator.styleMap, old style ID -> new style ID
    pc,         \* pc[r]: the statement of Recreate that run r executes next
    si,         \* si[r]: position (1-based) of the sheet being recreated
    ci,         \* ci[r]: position in the sequence the current loop ranges over
    pending,    \* pending[r]: keys of the Go map being ranged over, not yet visited
    err,        \* err[r]: what Recreate returned ("" is nil), once pc[r] = "done"
    budget,     \* budget[r]: calls of run r the collaborator may still reject
    calls,      \* calls[r]: the collaborator calls issued so far, in order
    issues,     \* what ValidateMetadata returned, once the caller has called it
    saved       \* saved[r]: what Save of run r returned and wrote, once called

vars == << metadata, options, file, styleMap, pc, si, ci, pending, err, budget, calls,
           issues, saved >>

Runs == DOMAIN pc
NoError == ""

(* ------------------- decisions taken by the engine --------------------- *)
\* src/excelrecreator.go:223-226
ResolveSheetName(sheetMeta) ==
    IF sheetMeta.Name = ""
    THEN options.DefaultSheetName \o ToString(sheetMeta.Index + 1)
    ELSE sheetMeta.Name

\* src/excelrecreator.go:151-210: the excelize.Style built from a StyleDetails.
BuildStyle(styleMeta) ==
    [ Font       |-> IF ~IsNil(styleMeta.Font) THEN styleMeta.Font ELSE Nil,
      Fill       |-> IF ~IsNil(styleMeta.Fill) /\ Len(Deref(styleMeta.Fill).Color) > 0
                     THEN styleMeta.Fill ELSE Nil,
      Border     |-> IF Len(styleMeta.Border) > 0 THEN styleMeta.Border ELSE << >>,
      Alignment  |-> IF ~IsNil(styleMeta.Alignment) THEN styleMeta.Alignment ELSE Nil,
      NumFmt     |-> IF styleMeta.NumberFormat # 0 THEN styleMeta.NumberFormat ELSE 0,
      Protection |-> IF ~IsNil(styleMeta.Protection) THEN styleMeta.Protection ELSE Nil ]

\* src/excelrecreator.go:84
StylesWanted == options.PreserveStyles /\ Cardinality(DOMAIN metadata.Styles) > 0

\* Variant: an empty cell is skipped only when it carries no style.
SkipCellUnlessStyled(cell) ==
    /\ options.SkipEmptyCells /\ cell.Value.kind = "nil" /\ cell.Formula = ""
    /\ cell.StyleID = 0

\* src/excelrecreator.go:275
SkipCell(cell) ==
    options.SkipEmptyCells /\ cell.Value.kind = "nil" /\ cell.Formula = ""

\* Variant: the value takes precedence over the formula.
WritesFormulaIfNoValue(cell) ==
    cell.Formula # "" /\ options.PreserveFormulas /\ cell.Value.kind = "nil"

\* Variant: the formula is written whatever PreserveFormulas says.
WritesFormulaWhateverOption(cell) == cell.Formula # ""

\* src/excelrecreator.go:280
WritesFormula(cell) == cell.Formula # "" /\ options.PreserveFormulas

\* src/excelrecreator.go:284
WritesValue(cell) == ~WritesFormula(cell) /\ cell.Value.kind # "nil"

\* Decimal digits as characters.
DigitChars == << "0", "1", "2", "3", "4", "5", "6", "7", "8", "9" >>
IsDigit(c) == \E d \in 0..9 : DigitChars[d + 1] = c
DigitOf(c) == CHOOSE d \in 0..9 : DigitChars[d + 1] = c

\* Two-limb arithmetic on naturals << hi, lo >>: times ten plus a digit, and
\* division by ten with its remainder.
MulAdd10(m, d) ==
    << m[1] * 10 + (m[2] * 10 + d) \div Limb, (m[2] * 10 + d) % Limb >>
DivMod10(m) ==
    LET low == (m[1] % 10) * Limb + m[2]
    IN  [q |-> << m[1] \div 10, low \div 10 >>, r |-> low % 10]

\* The natural a run of digit characters denotes, and the digit characters
\* of a natural.
RECURSIVE IntOf(_)
IntOf(ds) ==
    IF ds = << >> THEN << 0, 0 >>
    ELSE MulAdd10(IntOf(SubSeq(ds, 1, Len(ds) - 1)), DigitOf(ds[Len(ds)]))
RECURSIVE DigitsOf(_)
DigitsOf(m) ==
    IF DivMod10(m).q = << 0, 0 >> THEN << DigitChars[DivMod10(m).r + 1] >>
    ELSE Append(DigitsOf(DivMod10(m).q), DigitChars[DivMod10(m).r + 1])

\* The float64 nearest to a number.  A number below 2^53 with few digits
\* survives the conversion; from 2^53 on the integer part is rounded to a
\* 53-bit mantissa, ties to the even mantissa (here up to 2^57).
Float64(n) ==
    LET s == IF n.hi < 2^26 THEN 0
             ELSE CHOOSE e \in 1..4 : 2^(25 + e) <= n.hi /\ n.hi < 2^(26 + e)
        q == 2^s
        rem == n.lo % q
        down == n.lo - rem
        up == \/ 2 * rem > q
              \/ 2 * rem = q /\ (n.frac # << >> \/ (down \div q) % 2 = 1)
        lo2 == IF up THEN down + q ELSE down
    IN  IF s = 0 THEN n
        ELSE Num(n.neg, n.hi + lo2 \div Limb, lo2 % Limb, << >>)

\* fmt.Sprintf("%v", v) of a value the type switch does not list: a string
\* as it is, a number as its decimal numeral.
Sprintf(v) ==
    IF v.kind = "string" THEN v.text
    ELSE (IF v.num.neg THEN << "-" >> ELSE << >>)
         \o DigitsOf(<< v.num.hi, v.num.lo >>)
         \o (IF v.num.frac = << >> THEN << >>
             ELSE << "." >> \o [i \in 1..Len(v.num.frac) |-> DigitChars[v.num.frac[i] + 1]])

\* The digits after the point without their trailing zeros.
RECURSIVE TrimZeros(_)
TrimZeros(ds) ==
    IF ds # << >> /\ ds[Len(ds)] = 0 THEN TrimZeros(SubSeq(ds, 1, Len(ds) - 1)) ELSE ds

\* strconv.ParseFloat(s, 64) on decimal texts: an optional sign, digits, an
\* optional point and digits, at least one digit; anything else is a syntax
\* error.  (Exponents, hexadecimal, "inf" and "nan" are not among the texts
\* the documents carry.)
ParseFloat(s) ==
    LET signed == s # << >> /\ s[1] \in {"+", "-"}
        body == IF signed THEN Tail(s) ELSE s
        dots == { i \in 1..Len(body) : body[i] = "." }
        dot == IF dots = {} THEN Len(body) + 1 ELSE CHOOSE i \in dots : TRUE
        intPart == SubSeq(body, 1, dot - 1)
        fracPart == SubSeq(body, dot + 1, Len(body))
        wellFormed == /\ Cardinality(dots) <= 1
                      /\ Len(intPart) + Len(fracPart) >= 1
                      /\ \A i \in 1..Len(body) : i \in dots \/ IsDigit(body[i])
    IN  IF wellFormed
        THEN [ok |-> TRUE,
              num |-> Float64(Num(signed /\ s[1] = "-",
                                  IntOf(intPart)[1], IntOf(intPart)[2],
                                  TrimZeros([i \in 1..Len(fracPart) |-> DigitOf(fracPart[i])])))]
        ELSE [ok |-> FALSE, num |-> Zero]

Written(op, num, text) == [op |-> op, num |-> num, text |-> text]

\* Variant: a value of an unlisted kind is always written as its text.
TypedWriteKeepingText(v) ==
    CASE v.kind \in {"float32", "float64"} -> Written("SetCellFloat", v.num, << >>)
      [] v.kind \in {"int", "int8", "int16", "int32"} -> Written("SetCellInt", v.num, << >>)
      [] v.kind = "bool" -> Written("SetCellBool", v.num, << >>)
      [] v.kind = "time" -> Written("SetCellValue", v.num, << >>)
      [] OTHER -> Written("SetCellValue", Zero, Sprintf(v))

\* src/excelrecreator.go:286-312: the typed write chosen for a non-nil value.
TypedWrite(v) ==
    CASE v.kind \in {"float32", "float64"} -> Written("SetCellFloat", v.num, << >>)
      [] v.kind \in {"int", "int8", "int16", "int32"} -> Written("SetCellInt", v.num, << >>)
      [] v.kind = "bool" -> Written("SetCellBool", v.num, << >>)
      [] v.kind = "time" -> Written("SetCellValue", v.num, << >>)
      [] OTHER ->
           IF ParseFloat(Sprintf(v)).ok
           THEN Written("SetCellFloat", ParseFloat(Sprintf(v)).num, << >>)
           ELSE Written("SetCellValue", Zero, Sprintf(v))

\* src/excelrecreator.go:316-317
AppliesStyle(cell, sm) ==
    options.PreserveStyles /\ cell.StyleID # 0 /\ cell.StyleID \in DOMAIN sm

\* Variant: the metadata identifier is applied unmapped.
OriginalStyleID(cell, sm) == cell.StyleID

\* src/excelrecreator.go:317-318: the identifier handed to SetCellStyle.
NewStyleID(cell, sm) == sm[cell.StyleID]

\* Variant: the hyperlink is written only for a cell that got a content write.
HasHyperlinkAndContent(cell) ==
    ~IsNil(cell.Hyperlink) /\ (WritesFormula(cell) \/ WritesValue(cell))

\* src/excelrecreator.go:323
HasHyperlink(cell) == ~IsNil(cell.Hyperlink)

\* src/excelrecreator.go:265
WantsProtection(sheetMeta) ==
    ~IsNil(sheetMeta.Protection) /\ Deref(sheetMeta.Protection).Protected

\* Variant: data validations are applied whatever the option says.
ValidationsWantedAlways == TRUE

\* src/excelrecreator.go:258
ValidationsWanted == options.PreserveDataValidation

\* Variant: the default sheet is deleted whatever the metadata declares.
DeletesDefaultSheetAlways == TRUE

\* src/excelrecreator.go:91
DeletesDefaultSheet == Len(metadata.Sheets) > 0

\* src/excelrecreator.go:103
NamesWanted == options.PreserveFormulas /\ Len(metadata.DefinedNames) > 0

\* Variant: every sheet counts as visible.
AllPositions == 1..Len(metadata.Sheets)

\* src/excelrecreator.go:110-115: the sheets whose Visible flag is set, and the
\* argument of SetActiveSheet for the first of them.
VisiblePositions == { k \in 1..Len(metadata.Sheets) : metadata.Sheets[k].Visible }
FirstVisible == CHOOSE k \in VisiblePositions : \A j \in VisiblePositions : k <= j
ActiveSheetArg(sheetMeta) == sheetMeta.Index


(* ------------------------------ actions -------------------------------- *)
\* A logged call: the operation, the sheet position and the position in the
\* sheet's sequence it belongs to (0: none), its string and integer arguments,
\* whether the collaborator accepted it, and the integer it returned.
CallRec(op, s, c, name, id, ok, ret) ==
    [op |-> op, si |-> s, ci |-> c, name |-> name, id |-> id, ok |-> ok, ret |-> ret]

\* The collaborator may reject a call while the run has rejections left.
MayReject(r, ok) == ok \/ budget[r] > 0

\* Variant: a rejected call rolls the workbook back to the fresh one.
EmitRollingBack(r, issued, ok, rec, f2) ==
    /\ calls' = [calls EXCEPT ![r] = IF issued THEN Append(@, rec) ELSE @]
    /\ budget' = [budget EXCEPT ![r] = IF issued /\ ~ok THEN @ - 1 ELSE @]
    /\ file' = [file EXCEPT ![r] = IF issued THEN (IF ok THEN f2 ELSE NewFile) ELSE @]

\* One statement's effect on the collaborator: the call (if one is issued) is
\* logged; it changes the file only when the collaborator accepts it.
Emit(r, issued, ok, rec, f2) ==
    /\ calls' = [calls EXCEPT ![r] = IF issued THEN Append(@, rec) ELSE @]
    /\ budget' = [budget EXCEPT ![r] = IF issued /\ ~ok THEN @ - 1 ELSE @]
    /\ file' = [file EXCEPT ![r] = IF issued /\ ok THEN f2 ELSE @]

Goto(r, p) == pc' = [pc EXCEPT ![r] = p]
Return(r, e) == /\ pc' = [pc EXCEPT ![r] = "done"]
                /\ err' = [err EXCEPT ![r] = e]

\* Variant: the sheets are visited in the order of their declared Index (ties
\* in sequence order) rather than in sequence order.
CurSheetByIndex(r) ==
    LET before(j, k) == \/ metadata.Sheets[j].Index < metadata.Sheets[k].Index
                        \/ /\ metadata.Sheets[j].Index = metadata.Sheets[k].Index
                           /\ j < k
        ps == 1..Len(metadata.Sheets)
    IN  metadata.Sheets[CHOOSE k \in ps :
                          Cardinality({ j \in ps : before(j, k) }) = si[r] - 1]

\* src/excelrecreator.go:96-97: the range over metadata.Sheets yields the
\* sheets in sequence order.
CurSheet(r) == metadata.Sheets[si[r]]
CurName(r) == ResolveSheetName(CurSheet(r))
\* Variant: the cells of a sheet are visited last to first.
CurCellReversed(r) == CurSheet(r).Cells[Len(CurSheet(r).Cells) + 1 - ci[r]]

\* src/excelrecreator.go:273: the range over the cells yields them in
\* declaration order.
CurCell(r) == CurSheet(r).Cells[ci[r]]

\* Variant: the error of recreateDocumentProperties is dropped.
AfterSetDocPropsIgnoringError(r, ok) ==
    /\ Goto(r, "styles")
    /\ pending' = [pending EXCEPT ![r] =
                     IF StylesWanted THEN DOMAIN metadata.Styles ELSE {}]
    /\ UNCHANGED err

\* src/excelrecreator.go:79-84: the error of recreateDocumentProperties is
\* returned; otherwise the style phase is entered (guard of line 84).
AfterSetDocProps(r, ok) ==
    IF ok
    THEN /\ Goto(r, "styles")
         /\ pending' = [pending EXCEPT ![r] =
                          IF StylesWanted THEN DOMAIN metadata.Styles ELSE {}]
         /\ UNCHANGED err
    ELSE /\ Return(r, "failed to recreate document properties")
         /\ UNCHANGED pending

\* src/excelrecreator.go:77-81, 132-147
RecreateDocumentProperties(r) ==
    /\ r \in Runs
    /\ pc[r] = "props"
    /\ \E ok \in BOOLEAN :
         /\ MayReject(r, ok)
         /\ Emit(r, TRUE, ok, CallRec("SetDocProps", 0, 0, "", 0, ok, 0),
                 SetDocProps(file[r], metadata.Properties))
         /\ AfterSetDocProps(r, ok)
    /\ UNCHANGED << metadata, options, issues, saved, styleMap, si, ci >>

\* Variant: the identifiers come from one registry shared by all the runs'
\* workbooks.
NewStyleIDSharedRegistry(r, style) ==
    LET all == UNION { { file[q].styles[i] : i \in 1..Len(file[q].styles) } : q \in Runs }
    IN  IF style \in all THEN Cardinality(all) ELSE Cardinality(all) + 1

\* src/excelrecreator.go:213: the identifier r.file.NewStyle returns, which
\* comes from the run's own workbook.
NewStyleIDFromOwnFile(r, style) == StyleIDOf(file[r], style)

\* Variant: the identifier is entered in the remap table whether or not the
\* registration succeeded.
AfterNewStyleIgnoringError(sm, oldID, newID, ok) == Put(sm, oldID, newID)

\* src/excelrecreator.go:213-216: the remap table gets the entry only when
\* NewStyle returned no error.
AfterNewStyle(sm, oldID, newID, ok) == IF ok THEN Put(sm, oldID, newID) ELSE sm

\* src/excelrecreator.go:150-217: one iteration of the range over the style
\* map (Go visits the keys in no fixed order), or the end of the loop.
RecreateStyles(r) ==
    /\ r \in Runs
    /\ pc[r] = "styles"
    /\ IF pending[r] = {}
       THEN /\ Goto(r, "delete")
            /\ UNCHANGED << file, styleMap, pending, budget, calls >>
       ELSE \E oldID \in pending[r], ok \in BOOLEAN :
              LET style == BuildStyle(metadata.Styles[oldID])
                  newID == NewStyleIDFromOwnFile(r, style)
              IN  /\ MayReject(r, ok)
                  /\ Emit(r, TRUE, ok, CallRec("NewStyle", 0, 0, "", oldID, ok, IF ok THEN newID ELSE 0),
                          NewStyle(file[r], style))
                  /\ styleMap' = [styleMap EXCEPT ![r] = AfterNewStyle(@, oldID, newID, ok)]
                  /\ pending' = [pending EXCEPT ![r] = @ \ {oldID}]
                  /\ UNCHANGED pc
    /\ UNCHANGED << metadata, options, issues, saved, si, ci, err >>

\* src/excelrecreator.go:90-93
DeleteDefaultSheet(r) ==
    /\ r \in Runs
    /\ pc[r] = "delete"
    /\ \E ok \in BOOLEAN :
         /\ MayReject(r, ok)
         /\ Emit(r, DeletesDefaultSheet, ok,
                 CallRec("DeleteSheet", 0, 0, "Sheet1", 0, ok, 0),
                 DeleteSheet(file[r], "Sheet1"))
    /\ Goto(r, "sheet")
    /\ si' = [si EXCEPT ![r] = 1]
    /\ UNCHANGED << metadata, options, issues, saved, styleMap, ci, pending, err >>

\* Variant: the error of NewSheet is dropped.
AfterNewSheetIgnoringError(r, ok) == Goto(r, "visible") /\ UNCHANGED err

\* src/excelrecreator.go:229-232, 97-99: the error of NewSheet is returned.
AfterNewSheet(r, ok) ==
    IF ok THEN Goto(r, "visible") /\ UNCHANGED err
          ELSE Return(r, "failed to recreate sheet")

\* src/excelrecreator.go:96-100, 222-232: the head of the range over the
\* sheets, and the creation of the next sheet.
CreateSheet(r) ==
    /\ r \in Runs
    /\ pc[r] = "sheet"
    /\ IF si[r] > Len(metadata.Sheets)
       THEN /\ Goto(r, "names")
            /\ ci' = [ci EXCEPT ![r] = 1]
            /\ UNCHANGED << file, budget, calls, err >>
       ELSE \E ok \in BOOLEAN :
              /\ MayReject(r, ok)
              /\ Emit(r, TRUE, ok, CallRec("NewSheet", si[r], 0, CurName(r), 0, ok,
                              IF ok THEN GetSheetIndex(NewSheet(file[r], CurName(r)), CurName(r)) ELSE -1),
                      NewSheet(file[r], CurName(r)))
              /\ AfterNewSheet(r, ok)
              /\ UNCHANGED ci
    /\ UNCHANGED << metadata, options, issues, saved, styleMap, si, pending >>

\* src/excelrecreator.go:235
SetVisibility(r) ==
    /\ r \in Runs
    /\ pc[r] = "visible"
    /\ \E ok \in BOOLEAN :
         /\ MayReject(r, ok)
         /\ Emit(r, TRUE, ok, CallRec("SetSheetVisible", si[r], 0, CurName(r), 0, ok, 0),
                 SetSheetVisible(file[r], CurName(r), CurSheet(r).Visible))
    /\ Goto(r, "colwidths")
    /\ pending' = [pending EXCEPT ![r] = DOMAIN CurSheet(r).ColWidths]
    /\ UNCHANGED << metadata, options, issues, saved, styleMap, si, ci, err >>

\* src/excelrecreator.go:238-240
SetColWidths(r) ==
    /\ r \in Runs
    /\ pc[r] = "colwidths"
    /\ IF pending[r] = {}
       THEN /\ Goto(r, "rowheights")
            /\ pending' = [pending EXCEPT ![r] = DOMAIN CurSheet(r).RowHeights]
            /\ UNCHANGED << file, budget, calls >>
       ELSE \E col \in pending[r], ok \in BOOLEAN :
              /\ MayReject(r, ok)
              /\ Emit(r, TRUE, ok, CallRec("SetColWidth", si[r], 0, col, 0, ok, 0),
                      SetColWidth(file[r], CurName(r), col, CurSheet(r).ColWidths[col]))
              /\ pending' = [pending EXCEPT ![r] = @ \ {col}]
              /\ UNCHANGED pc
    /\ UNCHANGED << metadata, options, issues, saved, styleMap, si, ci, err >>

\* src/excelrecreator.go:243-245
SetRowHeights(r) ==
    /\ r \in Runs
    /\ pc[r] = "rowheights"
    /\ IF pending[r] = {}
       THEN /\ Goto(r, "cells")
            /\ ci' = [ci EXCEPT ![r] = 1]
            /\ UNCHANGED << file, budget, calls, pending >>
       ELSE \E row \in pending[r], ok \in BOOLEAN :
              /\ MayReject(r, ok)
              /\ Emit(r, TRUE, ok, CallRec("SetRowHeight", si[r], 0, "", row, ok, 0),
                      SetRowHeight(file[r], CurName(r), row, CurSheet(r).RowHeights[row]))
              /\ pending' = [pending EXCEPT ![r] = @ \ {row}]
              /\ UNCHANGED << pc, ci >>
    /\ UNCHANGED << metadata, options, issues, saved, styleMap, si, err >>


\* Variant: the error of SetCellFormula is dropped.
AfterSetCellFormulaIgnoringError(r, ok) == Goto(r, "cellstyle") /\ UNCHANGED err

\* src/excelrecreator.go:281-283, 248-250, 97-99: the error of SetCellFormula
\* is returned.
AfterSetCellFormula(r, ok) ==
    IF ok THEN Goto(r, "cellstyle") /\ UNCHANGED err
          ELSE Return(r, "failed to recreate sheet")

\* src/excelrecreator.go:273-313: the head of the range over the cells, the
\* skip of an empty cell, and the cell's content write.
WriteCellContent(r) ==
    /\ r \in Runs
    /\ pc[r] = "cells"
    /\ IF ci[r] > Len(CurSheet(r).Cells)
       THEN /\ Goto(r, "merges")
            /\ ci' = [ci EXCEPT ![r] = 1]
            /\ UNCHANGED << file, budget, calls, err >>
       ELSE IF SkipCell(CurCell(r))
       THEN /\ ci' = [ci EXCEPT ![r] = @ + 1]
            /\ UNCHANGED << file, budget, calls, pc, err >>
       ELSE \E ok \in BOOLEAN :
              LET cell == CurCell(r) IN
              /\ MayReject(r, ok)
              /\ IF WritesFormula(cell)
                 THEN /\ Emit(r, TRUE, ok,
                              CallRec("SetCellFormula", si[r], ci[r], cell.Address, 0, ok, 0),
                              SetCellFormula(file[r], CurName(r), cell.Address, cell.Formula))
                      /\ AfterSetCellFormula(r, ok)
                 ELSE /\ Emit(r, WritesValue(cell), ok,
                              CallRec(TypedWrite(cell.Value).op, si[r], ci[r], cell.Address, 0, ok, 0),
                              SetCellTyped(file[r], CurName(r), cell.Address, TypedWrite(cell.Value)))
                      /\ Goto(r, "cellstyle")
                      /\ UNCHANGED err
              /\ UNCHANGED ci
    /\ UNCHANGED << metadata, options, issues, saved, styleMap, si, pending >>

\* src/excelrecreator.go:316-320
ApplyCellStyle(r) ==
    /\ r \in Runs
    /\ pc[r] = "cellstyle"
    /\ \E ok \in BOOLEAN :
         LET cell == CurCell(r)
             applies == AppliesStyle(cell, styleMap[r])
             newStyleID == IF applies THEN NewStyleID(cell, styleMap[r]) ELSE 0
         IN  /\ MayReject(r, ok)
             /\ Emit(r, applies, ok,
                     CallRec("SetCellStyle", si[r], ci[r], cell.Address, newStyleID, ok, 0),
                     SetCellStyle(file[r], CurName(r), cell.Address, newStyleID))
    /\ Goto(r, "celllink")
    /\ UNCHANGED << metadata, options, issues, saved, styleMap, si, ci, pending, err >>

\* src/excelrecreator.go:323-326
SetHyperlink(r) ==
    /\ r \in Runs
    /\ pc[r] = "celllink"
    /\ \E ok \in BOOLEAN :
         LET cell == CurCell(r) IN
         /\ MayReject(r, ok)
         /\ Emit(r, HasHyperlink(cell), ok,
                 CallRec("SetCellHyperLink", si[r], ci[r], cell.Address, 0, ok, 0),
                 SetCellHyperLink(file[r], CurName(r), cell.Address,
                                  IF HasHyperlink(cell) THEN Deref(cell.Hyperlink).Link ELSE ""))
    /\ Goto(r, "cells")
    /\ ci' = [ci EXCEPT ![r] = @ + 1]
    /\ UNCHANGED << metadata, options, issues, saved, styleMap, si, pending, err >>

\* Variant: the error of MergeCell is returned.
AfterMergeCellReturningError(r, ok) ==
    IF ok THEN /\ ci' = [ci EXCEPT ![r] = @ + 1]
               /\ UNCHANGED << pc, err >>
          ELSE /\ Return(r, "failed to recreate sheet")
               /\ UNCHANGED ci

\* src/excelrecreator.go:254: the result of MergeCell is discarded.
AfterMergeCell(r, ok) ==
    /\ ci' = [ci EXCEPT ![r] = @ + 1]
    /\ UNCHANGED << pc, err >>

\* src/excelrecreator.go:253-255
MergeCells(r) ==
    /\ r \in Runs
    /\ pc[r] = "merges"
    /\ IF ci[r] > Len(CurSheet(r).MergedCells)
       THEN /\ Goto(r, "validations")
            /\ ci' = [ci EXCEPT ![r] = 1]
            /\ UNCHANGED << file, budget, calls, err >>
       ELSE \E ok \in BOOLEAN :
              LET merge == CurSheet(r).MergedCells[ci[r]] IN
              /\ MayReject(r, ok)
              /\ Emit(r, TRUE, ok,
                      CallRec("MergeCell", si[r], ci[r], merge.StartCell, 0, ok, 0),
                      MergeCell(file[r], CurName(r), merge.StartCell, merge.EndCell))
              /\ AfterMergeCell(r, ok)
    /\ UNCHANGED << metadata, options, issues, saved, styleMap, si, pending >>

\* src/excelrecreator.go:258-262, 331-344
RecreateDataValidations(r) ==
    /\ r \in Runs
    /\ pc[r] = "validations"
    /\ IF ~ValidationsWanted \/ ci[r] > Len(CurSheet(r).DataValidations)
       THEN /\ Goto(r, "protection")
            /\ UNCHANGED << file, budget, calls, ci >>
       ELSE \E ok \in BOOLEAN :
              LET dv == CurSheet(r).DataValidations[ci[r]] IN
              /\ MayReject(r, ok)
              /\ Emit(r, TRUE, ok,
                      CallRec("AddDataValidation", si[r], ci[r], dv.Range, 0, ok, 0),
                      AddDataValidation(file[r], CurName(r), dv))
              /\ ci' = [ci EXCEPT ![r] = @ + 1]
              /\ UNCHANGED pc
    /\ UNCHANGED << metadata, options, issues, saved, styleMap, si, pending, err >>

\* src/excelrecreator.go:265-269, 346-361: the last statement of
\* recreateSheet; the range over the sheets then moves to the next sheet.
RecreateSheetProtection(r) ==
    /\ r \in Runs
    /\ pc[r] = "protection"
    /\ \E ok \in BOOLEAN :
         /\ MayReject(r, ok)
         /\ Emit(r, WantsProtection(CurSheet(r)), ok,
                 CallRec("ProtectSheet", si[r], 0, CurName(r), 0, ok, 0),
                 ProtectSheet(file[r], CurName(r),
                              IF WantsProtection(CurSheet(r))
                              THEN Deref(CurSheet(r).Protection) ELSE SheetProtection(FALSE)))
    /\ Goto(r, "sheet")
    /\ si' = [si EXCEPT ![r] = @ + 1]
    /\ UNCHANGED << metadata, options, issues, saved, styleMap, ci, pending, err >>

\* Variant: the error of SetDefinedName is dropped and the loop goes on.
AfterSetDefinedNameIgnoringError(r, ok) ==
    /\ ci' = [ci EXCEPT ![r] = @ + 1]
    /\ UNCHANGED << pc, err >>

\* src/excelrecreator.go:365-371, 104-106: the error of SetDefinedName is
\* returned.
AfterSetDefinedName(r, ok) ==
    IF ok THEN /\ ci' = [ci EXCEPT ![r] = @ + 1]
               /\ UNCHANGED << pc, err >>
          ELSE /\ Return(r, "failed to recreate defined names")
               /\ UNCHANGED ci

\* src/excelrecreator.go:103-107, 363-374
RecreateDefinedNames(r) ==
    /\ r \in Runs
    /\ pc[r] = "names"
    /\ IF ~NamesWanted \/ ci[r] > Len(metadata.DefinedNames)
       THEN /\ Goto(r, "active")
            /\ UNCHANGED << file, budget, calls, ci, err >>
       ELSE \E ok \in BOOLEAN :
              LET dn == metadata.DefinedNames[ci[r]] IN
              /\ MayReject(r, ok)
              /\ Emit(r, TRUE, ok, CallRec("SetDefinedName", 0, ci[r], dn.Name, 0, ok, 0),
                      SetDefinedName(file[r], dn))
              /\ AfterSetDefinedName(r, ok)
    /\ UNCHANGED << metadata, options, issues, saved, styleMap, si, pending >>

\* src/excelrecreator.go:110-117: SetActiveSheet returns nothing, so it cannot
\* be rejected.
SelectActiveSheet(r) ==
    /\ r \in Runs
    /\ pc[r] = "active"
    /\ LET found == VisiblePositions # {}
           arg == IF found THEN ActiveSheetArg(metadata.Sheets[FirstVisible]) ELSE 0
       IN  Emit(r, found, TRUE,
                CallRec("SetActiveSheet", IF found THEN FirstVisible ELSE 0, 0, "", arg, TRUE, 0),
                SetActiveSheet(file[r], arg))
    /\ Return(r, NoError)
    /\ UNCHANGED << metadata, options, issues, saved, styleMap, si, ci, pending >>

\* The Recreators that may exist; Runs are those that do.
RunIds == {1, 2}

Next ==
    \E r \in RunIds :
        \/ RecreateDocumentProperties(r)
        \/ RecreateStyles(r)
        \/ DeleteDefaultSheet(r)
        \/ CreateSheet(r)
        \/ SetVisibility(r)
        \/ SetColWidths(r)
        \/ SetRowHeights(r)
        \/ WriteCellContent(r)
        \/ ApplyCellStyle(r)
        \/ SetHyperlink(r)
        \/ MergeCells(r)
        \/ RecreateDataValidations(r)
        \/ RecreateSheetProtection(r)
        \/ RecreateDefinedNames(r)
        \/ SelectActiveSheet(r)

(* ---------------------------- GetFile and Save ------------------------- *)
\* src/excelrecreator.go:125-128: the Recreator's own workbook, not a copy.
GetFile(r) == file[r]

\* src/excelrecreator.go:120-123, src/example/main.go:634-643: the caller
\* saves once Recreate has returned, whether it returned nil or an error.
\* SaveAs writes the workbook as it stands and leaves it as it is; it may fail.
Save(r) ==
    /\ r \in Runs
    /\ pc[r] = "done"
    /\ saved[r] = Nil
    /\ \E ok \in BOOLEAN :
         /\ MayReject(r, ok)
         /\ budget' = [budget EXCEPT ![r] = IF ok THEN @ ELSE @ - 1]
         /\ saved' = [saved EXCEPT ![r] =
                        Some([ok |-> ok, workbook |-> IF ok THEN Some(file[r]) ELSE Nil])]
    /\ UNCHANGED << metadata, options, issues, file, styleMap, pc, si, ci, pending, err,
                    calls >>

NextSave ==
    \/ Next
    \/ \E r \in RunIds : Save(r)

(* --------------------------- ValidateMetadata -------------------------- *)
\* excelize.CellNameToCoordinates on a cell name given as its characters: a
\* run of letters (the column, at most column 2^14 = XFD) followed by a run of
\* digits (the row, 1 to 2^20); anything else is an error.  (A column of four
\* letters is beyond XFD; rows are written without leading zeros.)
LetterChars ==
    << "A", "B", "C", "D", "E", "F", "G", "H", "I", "J", "K", "L", "M",
       "N", "O", "P", "Q", "R", "S", "T", "U", "V", "W", "X", "Y", "Z" >>
IsLetter(c) == \E n \in 1..26 : LetterChars[n] = c
LetterOf(c) == CHOOSE n \in 1..26 : LetterChars[n] = c
TotalRows == 2^20
MaxColumns == 2^14

RECURSIVE ColumnNameToNumber(_)
ColumnNameToNumber(name) ==
    IF name = << >> THEN 0
    ELSE ColumnNameToNumber(SubSeq(name, 1, Len(name) - 1)) * 26 + LetterOf(name[Len(name)])

CellNameToCoordinates(cell) ==
    LET n == Cardinality({ i \in 1..Len(cell) : \A j \in 1..i : IsLetter(cell[j]) })
        col == SubSeq(cell, 1, n)
        rowStr == SubSeq(cell, n + 1, Len(cell))
        wellFormed == /\ n >= 1 /\ n <= 3 /\ Len(rowStr) >= 1 /\ Len(rowStr) <= 7
                      /\ \A i \in 1..Len(rowStr) : IsDigit(rowStr[i])
        row == IF wellFormed THEN IntOf(rowStr)[2] ELSE 0
    IN  [ok |-> /\ wellFormed
                /\ row >= 1 /\ row <= TotalRows
                /\ ColumnNameToNumber(col) <= MaxColumns,
         col |-> IF wellFormed THEN ColumnNameToNumber(col) ELSE -1,
         row |-> IF wellFormed THEN row ELSE -1]

\* An issue: the format string of its fmt.Sprintf and the text of its argument.
Issue(format, arg) == [format |-> format, arg |-> arg]

\* src/excelrecreator.go:435-439: the range over a sheet's cells.
RECURSIVE CheckCells(_, _, _)
CheckCells(issuesSoFar, cells, j) ==
    IF j > Len(cells) THEN issuesSoFar
    ELSE CheckCells(IF ~CellNameToCoordinates(cells[j].Address).ok
                    THEN Append(issuesSoFar, Issue("invalid cell address: %s", cells[j].Address))
                    ELSE issuesSoFar,
                    cells, j + 1)

\* Variant: only the start cell of a merge is checked.
CheckMergeStartOnly(issuesSoFar, merge) ==
    IF ~CellNameToCoordinates(merge.StartCell).ok
    THEN Append(issuesSoFar, Issue("invalid merge start cell: %s", merge.StartCell))
    ELSE issuesSoFar

\* src/excelrecreator.go:443-448: the two checks of one merge.
CheckMerge(issuesSoFar, merge) ==
    LET afterStart ==
            IF ~CellNameToCoordinates(merge.StartCell).ok
            THEN Append(issuesSoFar, Issue("invalid merge start cell: %s", merge.StartCell))
            ELSE issuesSoFar
    IN  IF ~CellNameToCoordinates(merge.EndCell).ok
        THEN Append(afterStart, Issue("invalid merge end cell: %s", merge.EndCell))
        ELSE afterStart

\* src/excelrecreator.go:442-449: the range over a sheet's merges.
RECURSIVE CheckMerges(_, _, _)
CheckMerges(issuesSoFar, merges, j) ==
    IF j > Len(merges) THEN issuesSoFar
    ELSE CheckMerges(CheckMerge(issuesSoFar, merges[j]), merges, j + 1)

\* src/excelrecreator.go:429-450: the range over the sheets; i is the
\* zero-based loop index.
RECURSIVE CheckSheets(_, _, _)
CheckSheets(issuesSoFar, sheets, i) ==
    IF i >= Len(sheets) THEN issuesSoFar
    ELSE LET sheet == sheets[i + 1]
             afterName == IF sheet.Name = ""
                          THEN Append(issuesSoFar,
                                      Issue("sheet %d has no name", DigitsOf(<< 0, i >>)))
                          ELSE issuesSoFar
         IN  CheckSheets(CheckMerges(CheckCells(afterName, sheet.Cells, 1),
                                     sheet.MergedCells, 1),
                         sheets, i + 1)

\* src/excelrecreator.go:417-453; the argument is a pointer, possibly nil.
ValidateMetadata(p) ==
    IF IsNil(p) THEN << Issue("metadata is nil", << >>) >>
    ELSE CheckSheets(IF Len(Deref(p).Sheets) = 0
                     THEN << Issue("no sheets found in metadata", << >>) >>
                     ELSE << >>,
                     Deref(p).Sheets, 0)

\* The caller validates the document, or a nil one, once.
CallValidateMetadata ==
    /\ issues = Nil
    /\ \E p \in {Nil, Some(metadata)} :
         issues' = Some([nilDocument |-> IsNil(p), out |-> ValidateMetadata(p)])
    /\ UNCHANGED << metadata, options, file, styleMap, pc, si, ci, pending, err,
                    budget, calls, saved >>

NextValidate == CallValidateMetadata

\* Documents for the validator: sheets named or not, cells at a valid and at
\* an out-of-range address, merges with valid and invalid end points.
AddressPool == { <<"A", "1">>, <<"Z", "Z", "9", "9", "9", "9", "9", "9", "9">> }
MergesPool ==
    { << >>,
      << Merge(<<"A", "1">>, <<"A", "0">>), Merge(<<"1", "A">>, <<"B", "2">>) >>,
      << Merge(<<"X", "F", "E", "1">>, <<"B", "2">>), Merge(<< >>, <<"A", "A", "A", "A", "1">>) >> }
ValidatorSheets ==
    { SheetMeta(0, n, TRUE, << >>, << >>,
                [j \in DOMAIN as |-> Cell(as[j], NilV, "", 0, Nil)], ms, << >>, Nil) :
        n \in {"", "A"}, as \in SeqsUpTo(AddressPool, MaxCells), ms \in MergesPool }
\* The sheets that follow the first one: without defect, with every defect,
\* and with one bad cell address.
FollowerSheets ==
    { SheetMeta(1, "B", TRUE, << >>, << >>,
                << Cell(<<"A", "1">>, NilV, "", 0, Nil) >>,
                << Merge(<<"A", "1">>, <<"B", "2">>) >>, << >>, Nil),
      SheetMeta(1, "", TRUE, << >>, << >>,
                << Cell(<<"A", "0">>, NilV, "", 0, Nil) >>,
                << Merge(<<"A", "1">>, <<"A", "0">>), Merge(<<"1", "A">>, <<"B", "2">>) >>,
                << >>, Nil),
      SheetMeta(1, "C", TRUE, << >>, << >>,
                << Cell(<<"A", "1">>, NilV, "", 0, Nil), Cell(<< >>, NilV, "", 0, Nil) >>,
                << >>, << >>, Nil) }
ValidatorDocs ==
    { Metadata(<< >>, << >>, << >>) }
    \cup { Metadata(<< s >> \o rest, << >>, << >>) :
              s \in ValidatorSheets, rest \in SeqsUpTo(FollowerSheets, MaxSheets - 1) }

(* --------------------------- specifications ---------------------------- *)
\* New(metadata, options), src/excelrecreator.go:43-54, for every run in rs;
\* the collaborator may reject n calls of each run.
InitRuns(rs, n) ==
    /\ file = [r \in rs |-> NewFile]
    /\ styleMap = [r \in rs |-> << >>]
    /\ pc = [r \in rs |-> "props"]
    /\ si = [r \in rs |-> 0]
    /\ ci = [r \in rs |-> 0]
    /\ pending = [r \in rs |-> {}]
    /\ err = [r \in rs |-> NoError]
    /\ budget = [r \in rs |-> n]
    /\ calls = [r \in rs |-> << >>]
    /\ issues = Nil
    /\ saved = [r \in rs |-> Nil]

\* The inputs: any document of the pool, under every combination of the
\* options that govern something the document carries.  The header documents
\* carry nothing an option governs, the cell documents no data validation and
\* the full documents no empty cell: those options stay at their defaults.
InitInputs ==
    /\ metadata \in MetadataPool
    /\ options \in
         IF metadata \in HeaderDocs THEN {DefaultOptions}
         ELSE IF metadata \in CellDocs
              THEN { o \in OptionsPool : o.PreserveDataValidation }
              ELSE { o \in OptionsPool : o.SkipEmptyCells }

\* One Recreator.
Init ==
    /\ InitInputs
    /\ InitRuns({1}, MaxFaults)

Spec == Init /\ [][Next]_vars

\* Two Recreators built from the same metadata (a one-sheet full document)
\* and the same options, each with its own file and styleMap, run in any
\* interleaving; the collaborator rejects nothing.
TwoRunDocs == { d \in FullDocs : Len(d.Sheets) = 1 }

InitTwo ==
    /\ metadata \in TwoRunDocs
    /\ options \in OptionsPool
    /\ InitRuns({1, 2}, 0)

SpecTwo == InitTwo /\ [][Next]_vars

\* One Recreator over a document whose one cell carries a value of any kind.
InitValues ==
    /\ metadata \in ValueDocs
    /\ options \in OptionsPool
    /\ InitRuns({1}, MaxFaults)

SpecValues == InitValues /\ [][Next]_vars

\* One Recreator over a cell document, under every combination of the options.
InitCells ==
    /\ metadata \in CellDocs
    /\ options \in OptionsPool
    /\ InitRuns({1}, MaxFaults)

SpecCells == InitCells /\ [][Next]_vars

\* One Recreator over the documents with several sheets: the header
\* documents and the full documents, under the options Init gives them.
InitOrder ==
    /\ InitInputs
    /\ metadata \in HeaderDocs \cup FullDocs
    /\ InitRuns({1}, MaxFaults)

SpecOrder == InitOrder /\ [][Next]_vars

\* One Recreator over a full document, then the caller's Save.
InitSave ==
    /\ metadata \in FullDocs
    /\ options \in { o \in OptionsPool : o.SkipEmptyCells }
    /\ InitRuns({1}, MaxFaults)

SpecSave == InitSave /\ [][NextSave]_vars

\* The validator alone: ValidateMetadata is called on a document of the pool
\* or on nil; no Recreator runs.
InitValidate ==
    /\ metadata \in ValidatorDocs
    /\ options = DefaultOptions
    /\ InitRuns({1}, 0)

SpecValidate == InitValidate /\ [][NextValidate]_vars


(* ------------------------------ properties ----------------------------- *)
Idx(r) == 1..Len(calls[r])
Done(r) == pc[r] = "done"
Succeeded(r) == Done(r) /\ err[r] = NoError

Positions == 1..Len(metadata.Sheets)
ResolvedName(k) == ResolveSheetName(metadata.Sheets[k])
CellsOf(k) == 1..Len(metadata.Sheets[k].Cells)
CellAt(k, c) == metadata.Sheets[k].Cells[c]

FatalOps == {"SetDocProps", "NewSheet", "SetCellFormula", "SetDefinedName"}
TypedOps == {"SetCellFloat", "SetCellInt", "SetCellBool", "SetCellValue"}
CellOps == TypedOps \cup {"SetCellFormula", "SetCellStyle", "SetCellHyperLink"}
GeometryOps == {"NewSheet", "SetSheetVisible", "SetColWidth", "SetRowHeight"}

\* The cell a logged cell operation was issued for.
CellOf(c) == CellAt(c.si, c.ci)
EmptyCell(cell) == cell.Value.kind = "nil" /\ cell.Formula = ""

\* Run r issued operation op for position c of sheet k.
Issued(r, op, k, c) ==
    \E i \in Idx(r) : calls[r][i].op = op /\ calls[r][i].si = k /\ calls[r][i].ci = c

\* The collaborator accepted every call of run r.
NoRejection(r) == \A i \in Idx(r) : calls[r][i].ok

DistinctNames ==
    \A j, k \in Positions : j # k => ResolvedName(j) # ResolvedName(k)

\* C1: after Recreate returns nil on metadata with at least one sheet and
\* pairwise distinct resolved names, the output workbook holds exactly one
\* sheet per metadata sheet and nothing else (no leftover default sheet).
\* Stated for the runs in which the collaborator accepted every call.
C1_ExactlyTheMetadataSheets ==
    \A r \in Runs :
        (Succeeded(r) /\ NoRejection(r) /\ Len(metadata.Sheets) >= 1 /\ DistinctNames)
            => /\ Len(file[r].sheets) = Len(metadata.Sheets)
               /\ { file[r].sheets[i] : i \in 1..Len(file[r].sheets) }
                    = { ResolvedName(k) : k \in Positions }

\* C2: after Recreate returns nil on metadata with a visible sheet, the
\* active sheet of the output is the sheet created for the first sheet in
\* metadata order whose Visible flag is true, whatever its declared Index.
\* Stated for the runs in which the collaborator accepted every call.
C2_ActiveIsFirstVisible ==
    \A r \in Runs :
        (Succeeded(r) /\ NoRejection(r) /\ VisiblePositions # {})
            => file[r].sheets[file[r].active + 1] = ResolvedName(FirstVisible)

\* What "structurally identical" compares: sheet names in order, cell
\* contents, and the style identifier of every styled cell.
Structure(f) == << f.sheets, f.formulas, f.values, f.cellStyles >>

\* C3: two runs on fresh Recreators built from the same metadata and options
\* yield structurally identical outputs, whatever order the style mapping is
\* visited in.
C3_RunsAgree ==
    \A r1, r2 \in Runs :
        (Succeeded(r1) /\ Succeeded(r2))
            => Structure(file[r1]) = Structure(file[r2])

\* C4: with SkipEmptyCells, no collaborator operation of any kind is issued
\* for a cell that has neither a value nor a formula.
C4_NoOperationForSkippedCell ==
    \A r \in Runs :
        options.SkipEmptyCells =>
            \A i \in Idx(r) :
                calls[r][i].op \in CellOps => ~EmptyCell(CellOf(calls[r][i]))

C4_Witness ==
    \E r \in Runs :
        /\ Succeeded(r) /\ options.SkipEmptyCells /\ options.PreserveStyles
        /\ \E k \in Positions : \E c \in CellsOf(k) :
             /\ EmptyCell(CellAt(k, c))
             /\ CellAt(k, c).StyleID \in DOMAIN styleMap[r]
             /\ HasHyperlink(CellAt(k, c))

\* C5: with PreserveFormulas, a cell with a non-empty formula gets its formula
\* text written unchanged, and no typed-value operation is issued for it.
C5_FormulaTakesPrecedence ==
    \A r \in Runs :
        options.PreserveFormulas =>
            /\ \A i \in Idx(r) :
                 calls[r][i].op \in TypedOps => CellOf(calls[r][i]).Formula = ""
            /\ Succeeded(r) =>
                 \A k \in Positions : \A c \in CellsOf(k) :
                     CellAt(k, c).Formula # "" =>
                         /\ Issued(r, "SetCellFormula", k, c)
                         /\ << ResolvedName(k), CellAt(k, c).Address >> \in DOMAIN file[r].formulas
                         /\ file[r].formulas[<< ResolvedName(k), CellAt(k, c).Address >>]
                              = CellAt(k, c).Formula

C5_Witness ==
    \E r \in Runs :
        /\ Succeeded(r) /\ options.PreserveFormulas
        /\ \E k \in Positions : \E c \in CellsOf(k) :
             CellAt(k, c).Formula # "" /\ CellAt(k, c).Value.kind # "nil"

\* Run r registered style oldID and the collaborator returned newID for it.
Registered(r, oldID, newID) ==
    \E j \in Idx(r) :
        /\ calls[r][j].op = "NewStyle" /\ calls[r][j].ok
        /\ calls[r][j].id = oldID /\ calls[r][j].ret = newID

\* C6: with PreserveStyles, the style applied to a cell whose style identifier
\* is in the metadata style mapping is the identifier the collaborator
\* returned when that style was registered, not the metadata identifier.
C6_AppliedStyleIsRemapped ==
    \A r \in Runs :
        /\ \A i \in Idx(r) :
             calls[r][i].op = "SetCellStyle" =>
                 /\ options.PreserveStyles
                 /\ Registered(r, CellOf(calls[r][i]).StyleID, calls[r][i].id)
                 /\ calls[r][i].ok =>
                      file[r].cellStyles[<< ResolvedName(calls[r][i].si),
                                            CellOf(calls[r][i]).Address >>] = calls[r][i].id
        /\ (Succeeded(r) /\ options.PreserveStyles) =>
             \A k \in Positions : \A c \in CellsOf(k) :
                 (/\ ~SkipCell(CellAt(k, c))
                  /\ CellAt(k, c).StyleID # 0
                  /\ CellAt(k, c).StyleID \in DOMAIN styleMap[r])
                     => /\ Issued(r, "SetCellStyle", k, c)
                        /\ Registered(r, CellAt(k, c).StyleID,
                                      styleMap[r][CellAt(k, c).StyleID])

C6_Witness ==
    \E r \in Runs : \E i \in Idx(r) :
        /\ calls[r][i].op = "SetCellStyle" /\ calls[r][i].ok
        /\ calls[r][i].id # CellOf(calls[r][i]).StyleID
        /\ CellOf(calls[r][i]).StyleID \in DOMAIN metadata.Styles


\* Run r issued every call the code issues when nothing stops it: the calls of
\* every phase, for every sheet, in the state the run ended in.
AttemptsComplete(r) ==
    /\ Issued(r, "SetDocProps", 0, 0)
    /\ StylesWanted =>
         \A oldID \in DOMAIN metadata.Styles :
             \E i \in Idx(r) : calls[r][i].op = "NewStyle" /\ calls[r][i].id = oldID
    /\ Len(metadata.Sheets) > 0 => Issued(r, "DeleteSheet", 0, 0)
    /\ \A k \in Positions :
         LET sheet == metadata.Sheets[k] IN
         /\ Issued(r, "NewSheet", k, 0)
         /\ Issued(r, "SetSheetVisible", k, 0)
         /\ \A col \in DOMAIN sheet.ColWidths :
              \E i \in Idx(r) : /\ calls[r][i].op = "SetColWidth"
                                /\ calls[r][i].si = k /\ calls[r][i].name = col
         /\ \A row \in DOMAIN sheet.RowHeights :
              \E i \in Idx(r) : /\ calls[r][i].op = "SetRowHeight"
                                /\ calls[r][i].si = k /\ calls[r][i].id = row
         /\ \A c \in CellsOf(k) :
              LET cell == CellAt(k, c) IN
              ~SkipCell(cell) =>
                  /\ WritesFormula(cell) => Issued(r, "SetCellFormula", k, c)
                  /\ WritesValue(cell) => Issued(r, TypedWrite(cell.Value).op, k, c)
                  /\ AppliesStyle(cell, styleMap[r]) => Issued(r, "SetCellStyle", k, c)
                  /\ HasHyperlink(cell) => Issued(r, "SetCellHyperLink", k, c)
         /\ \A m \in 1..Len(sheet.MergedCells) : Issued(r, "MergeCell", k, m)
         /\ options.PreserveDataValidation =>
              \A d \in 1..Len(sheet.DataValidations) : Issued(r, "AddDataValidation", k, d)
         /\ WantsProtection(sheet) => Issued(r, "ProtectSheet", k, 0)
    /\ NamesWanted =>
         \A n \in 1..Len(metadata.DefinedNames) : Issued(r, "SetDefinedName", 0, n)
    /\ VisiblePositions # {} =>
         \E i \in Idx(r) : calls[r][i].op = "SetActiveSheet"

FatalFailure(r) ==
    \E i \in Idx(r) : ~calls[r][i].ok /\ calls[r][i].op \in FatalOps

\* C7: Recreate returns an error if and only if a fatal operation (document
\* properties, sheet creation, formula write, defined name) failed; the
\* failure of any other operation neither makes it return an error nor keeps
\* the operations after it from being attempted.
C7_ErrorIffFatalFailure ==
    \A r \in Runs :
        /\ Done(r) => (err[r] # NoError <=> FatalFailure(r))
        /\ (Done(r) /\ ~FatalFailure(r)) => AttemptsComplete(r)
        /\ FatalFailure(r) => Done(r)

C7_Witness ==
    \E r \in Runs :
        /\ Succeeded(r)
        /\ \E i \in Idx(r) : i < Len(calls[r]) /\ ~calls[r][i].ok

\* C8: if creating the sheet at position k fails, Recreate returns an error
\* and stops: nothing else is issued for sheet k, no later sheet is created,
\* no defined name is registered and no active sheet is selected.
C8_SheetCreationFailureStops ==
    \A r \in Runs : \A i \in Idx(r) :
        (calls[r][i].op = "NewSheet" /\ ~calls[r][i].ok) =>
            /\ Done(r) /\ err[r] # NoError
            /\ i = Len(calls[r])
            /\ \A j \in Idx(r) \ {i} :
                 /\ calls[r][j].si < calls[r][i].si
                 /\ calls[r][j].op \notin {"SetDefinedName", "SetActiveSheet"}

C8_Witness ==
    \E r \in Runs : \E i \in Idx(r) :
        /\ calls[r][i].op = "NewSheet" /\ ~calls[r][i].ok
        /\ calls[r][i].si = 2
        /\ Len(metadata.Sheets[2].Cells) > 0
        /\ Len(metadata.DefinedNames) > 0 /\ options.PreserveFormulas
        /\ VisiblePositions # {}

\* C9: if a formula write fails for a cell, Recreate returns an error and
\* stops at that cell: no style or hyperlink for it, no later cell, no merge,
\* validation or protection of the sheet, no later sheet, no defined name and
\* no active-sheet selection.
C9_FormulaFailureStops ==
    \A r \in Runs : \A i \in Idx(r) :
        (calls[r][i].op = "SetCellFormula" /\ ~calls[r][i].ok) =>
            /\ Done(r) /\ err[r] # NoError
            /\ i = Len(calls[r])
            /\ \A j \in Idx(r) \ {i} :
                 /\ \/ calls[r][j].si < calls[r][i].si
                    \/ /\ calls[r][j].si = calls[r][i].si
                       /\ \/ calls[r][j].op \in GeometryOps
                          \/ calls[r][j].op \in CellOps /\ calls[r][j].ci < calls[r][i].ci
                 /\ calls[r][j].op \notin {"SetDefinedName", "SetActiveSheet"}

C9_Witness ==
    \E r \in Runs : \E i \in Idx(r) :
        /\ calls[r][i].op = "SetCellFormula" /\ ~calls[r][i].ok
        /\ calls[r][i].ci < Len(metadata.Sheets[calls[r][i].si].Cells)
        /\ calls[r][i].si < Len(metadata.Sheets)
        /\ HasHyperlink(CellOf(calls[r][i]))
        /\ AppliesStyle(CellOf(calls[r][i]), styleMap[r])
        /\ Len(metadata.DefinedNames) > 0
        /\ VisiblePositions # {}

\* C10: if setting the document properties fails, Recreate returns an error
\* at once: no style is registered, the default sheet is not deleted, no sheet
\* is created, no defined name is registered, no active sheet is selected.
C10_DocPropsFailureStops ==
    \A r \in Runs : \A i \in Idx(r) :
        (calls[r][i].op = "SetDocProps" /\ ~calls[r][i].ok) =>
            /\ Done(r) /\ err[r] # NoError
            /\ Len(calls[r]) = 1
            /\ file[r] = NewFile
            /\ styleMap[r] = << >>

C10_Witness ==
    \E r \in Runs :
        /\ Len(calls[r]) = 1 /\ calls[r][1].op = "SetDocProps" /\ ~calls[r][1].ok
        /\ StylesWanted /\ NamesWanted
        /\ Len(metadata.Sheets) > 0 /\ VisiblePositions # {}

\* The positions in run r's log of the calls of operation op, in log order.
CallsOf(r, op) == SelectSeq([i \in Idx(r) |-> i], LAMBDA i : calls[r][i].op = op)

\* C11: defined names are registered, in metadata order, exactly when
\* PreserveFormulas is set and the metadata has a defined name; when the
\* registration at position j fails, no later name is registered, Recreate
\* returns an error and no active sheet is selected.
C11_DefinedNamesInOrderUntilFailure ==
    \A r \in Runs :
        LET ns == CallsOf(r, "SetDefinedName") IN
        /\ Len(ns) > 0 => options.PreserveFormulas /\ Len(metadata.DefinedNames) > 0
        /\ \A n \in 1..Len(ns) :
             /\ calls[r][ns[n]].ci = n
             /\ calls[r][ns[n]].name = metadata.DefinedNames[n].Name
             /\ ~calls[r][ns[n]].ok =>
                  /\ n = Len(ns) /\ ns[n] = Len(calls[r])
                  /\ Done(r) /\ err[r] # NoError
                  /\ \A i \in Idx(r) : calls[r][i].op # "SetActiveSheet"
        /\ Succeeded(r) =>
             IF options.PreserveFormulas
             THEN file[r].names = metadata.DefinedNames
             ELSE file[r].names = << >>

C11_Witness ==
    \E r \in Runs : \E i \in Idx(r) :
        /\ calls[r][i].op = "SetDefinedName" /\ ~calls[r][i].ok
        /\ calls[r][i].ci = 1
        /\ Len(metadata.DefinedNames) > 1
        /\ \E k \in Positions : metadata.Sheets[k].Visible

\* C12: a sheet whose metadata name is empty is created under the name
\* DefaultSheetName followed by (position + 1), position being the sheet's
\* zero-based place in the metadata sheet sequence, whatever its declared
\* Index.  Stated for the runs in which the collaborator accepted every call.
C12_SynthesizedNameUsesPosition ==
    \A r \in Runs : \A i \in Idx(r) :
        (/\ NoRejection(r)
         /\ calls[r][i].op = "NewSheet"
         /\ metadata.Sheets[calls[r][i].si].Name = "")
            => calls[r][i].name
                 = options.DefaultSheetName \o ToString((calls[r][i].si - 1) + 1)

\* C13: the name synthesized for an unnamed sheet is never the collaborator's
\* reserved "Sheet1" nor the name of another sheet of the run: creating an
\* unnamed sheet never targets a sheet the output already holds.  Stated for
\* the runs in which the collaborator accepted every call.
C13_SynthesizedNameIsFresh ==
    \A r \in Runs : \A i \in Idx(r) :
        (/\ NoRejection(r)
         /\ calls[r][i].op = "NewSheet"
         /\ metadata.Sheets[calls[r][i].si].Name = "")
            => /\ calls[r][i].name # ReservedSheet
               /\ \A j \in 1..(i - 1) :
                    calls[r][j].op = "NewSheet" => calls[r][j].name # calls[r][i].name

\* C14: the output workbook holds at least one sheet in every state during
\* and after Recreate; when the metadata declares no sheet, the default sheet
\* is not deleted (no delete is issued and the workbook is the fresh one's).
C14_WorkbookNeverEmpty ==
    \A r \in Runs :
        /\ Len(file[r].sheets) >= 1
        /\ Len(metadata.Sheets) = 0 =>
             /\ \A i \in Idx(r) : calls[r][i].op # "DeleteSheet"
             /\ file[r].sheets = << ReservedSheet >>

C14_Witness ==
    \E r \in Runs :
        /\ Succeeded(r)
        /\ Len(metadata.Sheets) = 0
        /\ Len(file[r].sheets) = 1

\* The metadata declares a sheet whose Visible flag is true.
SomeSheetVisible == \E k \in Positions : metadata.Sheets[k].Visible

\* C15: when no metadata sheet is visible the set-active-sheet operation is
\* never called; when one is, it is called exactly once, after every sheet and
\* every defined name has been processed (it is the last call of the run).
C15_ActiveSheetSetOnceAtTheEnd ==
    \A r \in Runs :
        LET as == CallsOf(r, "SetActiveSheet") IN
        /\ Len(as) <= 1
        /\ Len(as) = 1 =>
             /\ SomeSheetVisible
             /\ as[1] = Len(calls[r])
             /\ Succeeded(r)
             /\ \A k \in Positions : Issued(r, "NewSheet", k, 0)
             /\ NamesWanted =>
                  \A n \in 1..Len(metadata.DefinedNames) : Issued(r, "SetDefinedName", 0, n)
        /\ Succeeded(r) => (Len(as) = 1 <=> SomeSheetVisible)

C15_Witness ==
    \E r \in Runs :
        /\ Succeeded(r)
        /\ Len(CallsOf(r, "SetActiveSheet")) = 1
        /\ Len(metadata.Sheets) > 1
        /\ ~metadata.Sheets[1].Visible
        /\ Issued(r, "SetDefinedName", 0, 2)

\* The typed write the file holds for the cell a logged call was issued for.
StoredValue(r, c) == file[r].values[<< ResolvedName(c.si), CellOf(c).Address >>]

\* C16: a value of a kind other than floating-point, integer, boolean or
\* timestamp (a string) is written as a number exactly when its text parses
\* as a floating-point number, with the parsed number as content, and as the
\* literal text otherwise: "42.5" becomes the number 42.5, "abc" stays text.
C16_TextIsNumericIffItParses ==
    \A r \in Runs :
        /\ \A i \in Idx(r) :
             LET c == calls[r][i]
                 text == CellOf(c).Value.text
             IN  (c.op \in TypedOps /\ CellOf(c).Value.kind = "string") =>
                     /\ c.op = "SetCellFloat" <=> ParseFloat(text).ok
                     /\ c.op = "SetCellValue" <=> ~ParseFloat(text).ok
                     /\ (c.ok /\ ParseFloat(text).ok) =>
                          StoredValue(r, c) = Written("SetCellFloat", ParseFloat(text).num, << >>)
                     /\ (c.ok /\ ~ParseFloat(text).ok) =>
                          StoredValue(r, c) = Written("SetCellValue", Zero, text)
                     /\ text = <<"4", "2", ".", "5">> =>
                          c.op = "SetCellFloat" /\ (c.ok => StoredValue(r, c).num = Tenths(425))
                     /\ text = <<"a", "b", "c">> => c.op = "SetCellValue"
        /\ Succeeded(r) =>
             \A k \in Positions : \A n \in CellsOf(k) :
                 CellAt(k, n).Value.kind = "string" /\ CellAt(k, n).Formula = ""
                     => \E op \in TypedOps : Issued(r, op, k, n)

C16_Witness ==
    \E r \in Runs : \E i \in Idx(r) :
        /\ calls[r][i].op = "SetCellFloat" /\ calls[r][i].ok
        /\ CellOf(calls[r][i]).Value.kind = "string"
        /\ CellOf(calls[r][i]).Value.text = <<"4", "2", ".", "5">>
        /\ Succeeded(r)

FloatKinds == {"float32", "float64"}
IntKinds == {"int", "int8", "int16", "int32", "int64",
             "uint", "uint8", "uint16", "uint32", "uint64"}

\* C17: for every cell whose value is of a floating-point or integer kind, of
\* any width (64-bit and unsigned included), the number written to the output
\* equals the input number exactly.  Stated for the runs in which the
\* collaborator accepted every call.
C17_NumbersWrittenExactly ==
    \A r \in Runs : \A i \in Idx(r) :
        LET c == calls[r][i] IN
        (/\ NoRejection(r)
         /\ c.op \in TypedOps
         /\ CellOf(c).Value.kind \in FloatKinds \cup IntKinds)
            => StoredValue(r, c).num = CellOf(c).Value.num

\* The concatenation of a sequence of sequences.
RECURSIVE Concat(_)
Concat(ss) == IF ss = << >> THEN << >> ELSE Head(ss) \o Concat(Tail(ss))

BadAddress(a) == ~CellNameToCoordinates(a).ok

\* The issues the claim lists for the sheet at zero-based position i.
ListedForSheet(sheet, i) ==
    LET bad == SelectSeq(sheet.Cells, LAMBDA c : BadAddress(c.Address))
    IN  (IF sheet.Name = "" THEN << Issue("sheet %d has no name", DigitsOf(<< 0, i >>)) >>
         ELSE << >>)
        \o [j \in 1..Len(bad) |-> Issue("invalid cell address: %s", bad[j].Address)]
        \o Concat([m \in 1..Len(sheet.MergedCells) |->
                     (IF BadAddress(sheet.MergedCells[m].StartCell)
                      THEN << Issue("invalid merge start cell: %s", sheet.MergedCells[m].StartCell) >>
                      ELSE << >>)
                     \o (IF BadAddress(sheet.MergedCells[m].EndCell)
                         THEN << Issue("invalid merge end cell: %s", sheet.MergedCells[m].EndCell) >>
                         ELSE << >>)])

\* The issues the claim lists for a non-nil document, in its order.
ListedIssues(md) ==
    (IF Len(md.Sheets) = 0 THEN << Issue("no sheets found in metadata", << >>) >> ELSE << >>)
    \o Concat([k \in 1..Len(md.Sheets) |-> ListedForSheet(md.Sheets[k], k - 1)])

\* C18: ValidateMetadata returns exactly the listed issues and no others:
\* "metadata is nil" alone for a nil document; otherwise "no sheets found in
\* metadata" for zero sheets, then per sheet in order its "has no name" issue,
\* one "invalid cell address" issue per unparsable cell address, and per merge
\* its "invalid merge start cell" and "invalid merge end cell" issues; a
\* document without defect yields the empty list.  (A1 and B2 parse; A0, 1A,
\* the empty name, a row beyond 2^20 and a column beyond XFD do not.)
C18_ValidatorReportsExactlyTheListedIssues ==
    /\ ~BadAddress(<<"A", "1">>) /\ ~BadAddress(<<"B", "2">>)
    /\ ~BadAddress(<<"X", "F", "D", "1", "0", "4", "8", "5", "7", "6">>)
    /\ BadAddress(<<"A", "0">>) /\ BadAddress(<<"1", "A">>) /\ BadAddress(<< >>)
    /\ BadAddress(<<"Z", "Z", "9", "9", "9", "9", "9", "9", "9">>)
    /\ BadAddress(<<"X", "F", "E", "1">>)
    /\ issues # Nil =>
         IF Deref(issues).nilDocument
         THEN Deref(issues).out = << Issue("metadata is nil", << >>) >>
         ELSE /\ Deref(issues).out = ListedIssues(metadata)
              /\ (/\ Len(metadata.Sheets) > 0
                  /\ \A k \in Positions :
                       /\ metadata.Sheets[k].Name # ""
                       /\ \A c \in CellsOf(k) : ~BadAddress(CellAt(k, c).Address)
                       /\ \A m \in 1..Len(metadata.Sheets[k].MergedCells) :
                            /\ ~BadAddress(metadata.Sheets[k].MergedCells[m].StartCell)
                            /\ ~BadAddress(metadata.Sheets[k].MergedCells[m].EndCell))
                    => Deref(issues).out = << >>

C18_Witness ==
    /\ issues # Nil /\ ~Deref(issues).nilDocument
    /\ Len(metadata.Sheets) = 2
    /\ metadata.Sheets[1].Name # "" /\ metadata.Sheets[2].Name = ""
    /\ \E i, j, k \in 1..Len(Deref(issues).out) :
         /\ i < j /\ j < k
         /\ Deref(issues).out[i].format = "sheet %d has no name"
         /\ Deref(issues).out[i].arg = << "1" >>
         /\ Deref(issues).out[j].format = "invalid cell address: %s"
         /\ Deref(issues).out[k].format = "invalid merge end cell: %s"

\* Everything that belongs to run r: its Recreator's fields, its position in
\* Recreate and its call log.
Local(r) ==
    << file[r], styleMap[r], pc[r], si[r], ci[r], pending[r], err[r], budget[r], calls[r],
       saved[r] >>

\* The choices run r has made so far: the calls it issued, in order, without
\* what the collaborator returned (this records the order in which the Go
\* maps were visited).
VisitOrder(r) ==
    [i \in Idx(r) |->
        << calls[r][i].op, calls[r][i].si, calls[r][i].ci, calls[r][i].name,
           IF calls[r][i].op = "SetCellStyle" THEN 0 ELSE calls[r][i].id >>]

\* The identifiers run r received are positions in its own workbook's style
\* table, which holds the styles r registered and no other.
OwnRegistry(r) ==
    /\ \A i \in Idx(r) :
         (calls[r][i].op = "NewStyle" /\ calls[r][i].ok) =>
             /\ calls[r][i].ret \in 1..Len(file[r].styles)
             /\ file[r].styles[calls[r][i].ret] = BuildStyle(metadata.Styles[calls[r][i].id])
    /\ \A n \in 1..Len(file[r].styles) :
         \E i \in Idx(r) : calls[r][i].op = "NewStyle" /\ calls[r][i].ret = n
    /\ \A oldID \in DOMAIN styleMap[r] : Registered(r, oldID, styleMap[r][oldID])

\* C19: two runs on distinct Recreators, interleaved in any order and sharing
\* the read-only metadata, each end as when run alone.  Every step changes the
\* state of one run only and leaves the metadata and the options as they are;
\* a run's workbook and remap table are determined by its own choices (two
\* runs that made the same choices hold equal workbooks and remap tables,
\* wherever the other run stands), and its style identifiers come from its
\* own workbook.
C19_RunsAreIndependent ==
    /\ [](\A r1, r2 \in Runs :
            /\ OwnRegistry(r1)
            /\ VisitOrder(r1) = VisitOrder(r2) =>
                 /\ file[r1] = file[r2]
                 /\ styleMap[r1] = styleMap[r2]
                 /\ calls[r1] = calls[r2])
    /\ [][ /\ metadata' = metadata /\ options' = options
           /\ \E r \in Runs : \A q \in Runs \ {r} : Local(q)' = Local(q) ]_vars

C19_Witness ==
    /\ Runs = {1, 2}
    /\ pc[1] = "cells" /\ pc[2] = "done" /\ err[2] = NoError
    /\ Cardinality(DOMAIN styleMap[1]) = 2 /\ styleMap[1] # styleMap[2]
    /\ \E i \in Idx(1) : calls[1][i].op = "NewStyle" /\ calls[1][i].ret = 2
    /\ \E i \in Idx(2) : calls[2][i].op = "NewStyle" /\ calls[2][i].ret = 2

\* The data validations of the metadata, sheet by sheet in metadata order,
\* each with the name of the sheet it belongs to.
AllValidations ==
    Concat([k \in Positions |->
              [d \in 1..Len(metadata.Sheets[k].DataValidations) |->
                 << ResolvedName(k), metadata.Sheets[k].DataValidations[d] >>]])

\* C20: with PreserveDataValidation the data-validation rules are applied to
\* their sheet, each rule once and in metadata order; without it no
\* data-validation operation is issued for any sheet of the run.
C20_ValidationsOnlyWhenPreserved ==
    \A r \in Runs :
        LET vs == CallsOf(r, "AddDataValidation") IN
        /\ ~options.PreserveDataValidation =>
             Len(vs) = 0 /\ file[r].validations = << >>
        /\ \A a \in 1..Len(vs) :
             LET c == calls[r][vs[a]] IN
             /\ c.ci \in 1..Len(metadata.Sheets[c.si].DataValidations)
             /\ c.name = metadata.Sheets[c.si].DataValidations[c.ci].Range
             /\ \A b \in (a + 1)..Len(vs) :
                  \/ c.si < calls[r][vs[b]].si
                  \/ c.si = calls[r][vs[b]].si /\ c.ci < calls[r][vs[b]].ci
        /\ (Succeeded(r) /\ options.PreserveDataValidation) =>
             /\ \A k \in Positions : \A d \in 1..Len(metadata.Sheets[k].DataValidations) :
                  Issued(r, "AddDataValidation", k, d)
             /\ (NoRejection(r) /\ DistinctNames) => file[r].validations = AllValidations

C20_Witness ==
    \E r \in Runs :
        /\ Succeeded(r) /\ NoRejection(r) /\ options.PreserveDataValidation
        /\ Len(metadata.Sheets) > 1
        /\ Len(file[r].validations) > 3
        /\ file[r].validations[1][2] # file[r].validations[2][2]

\* The phase of Recreate a logged call belongs to: document properties, style
\* registration, removal of the default sheet, the sheets, defined names,
\* active-sheet selection.
PhaseOf(c) ==
    CASE c.op = "SetDocProps" -> 1
      [] c.op = "NewStyle" -> 2
      [] c.op = "DeleteSheet" -> 3
      [] c.op = "SetDefinedName" -> 5
      [] c.op = "SetActiveSheet" -> 6
      [] OTHER -> 4

\* Call c is issued no later than call d in the fixed order: an earlier phase;
\* or the same phase, for the phases that issue more than one call (styles,
\* sheets, defined names), and among the sheets no later sheet position.
InPhaseOrder(c, d) ==
    LET pc1 == PhaseOf(c)
        pd == PhaseOf(d)
    IN  \/ pc1 < pd
        \/ pc1 = pd /\ pc1 \in {2, 4, 5} /\ (pc1 = 4 => c.si <= d.si)

\* C21: in every run the phases occur in the fixed order document properties,
\* style registration, removal of the default sheet, the sheets one after
\* another in metadata sequence order (whatever their Index), defined names,
\* active-sheet selection: the log is ordered by phase and, among the sheets,
\* by sequence position (every call is in order with its successor, hence with
\* every later call); the sheet at position k is created under the name of the
\* k-th metadata sheet; and every style registration precedes the first cell
\* style.
C21_PhasesInFixedOrder ==
    \A r \in Runs :
        LET creations == CallsOf(r, "NewSheet")
            registrations == CallsOf(r, "NewStyle")
            applications == CallsOf(r, "SetCellStyle")
        IN  /\ \A i \in 1..(Len(calls[r]) - 1) : InPhaseOrder(calls[r][i], calls[r][i + 1])
            /\ \A n \in 1..Len(creations) :
                 /\ calls[r][creations[n]].si = n
                 /\ calls[r][creations[n]].name = ResolveSheetName(metadata.Sheets[n])
            /\ (registrations # << >> /\ applications # << >>) =>
                 registrations[Len(registrations)] < applications[1]
            /\ Succeeded(r) => Len(creations) = Len(metadata.Sheets)

\* A finished run over two sheets that went through every phase.
C21_Witness ==
    \E r \in Runs :
        /\ Succeeded(r)
        /\ Len(metadata.Sheets) = 2
        /\ \A p \in 1..6 : \E i \in Idx(r) : PhaseOf(calls[r][i]) = p
        /\ Len(CallsOf(r, "NewStyle")) = 2
        /\ Len(CallsOf(r, "SetCellStyle")) > 1
        /\ Len(CallsOf(r, "SetDefinedName")) = 2

\* The step of recreateSheet a logged sheet call belongs to: creation,
\* visibility, geometry (column widths and row heights), cells, merges, data
\* validations, protection.
StepOf(c) ==
    CASE c.op = "NewSheet" -> 1
      [] c.op = "SetSheetVisible" -> 2
      [] c.op \in {"SetColWidth", "SetRowHeight"} -> 3
      [] c.op \in CellOps -> 4
      [] c.op = "MergeCell" -> 5
      [] c.op = "AddDataValidation" -> 6
      [] c.op = "ProtectSheet" -> 7
      [] OTHER -> 0

\* Call c is issued no later than call d in the fixed order, when both are
\* sheet calls: an earlier sheet; or the same sheet and an earlier step; or the
\* same step and, among cells, merges and validations, no later position in
\* the sequence (a strictly later one for merges and validations, which get
\* one call each).
InStepOrder(c, d) ==
    LET sc == StepOf(c)
        sd == StepOf(d)
    IN  \/ sc = 0 \/ sd = 0
        \/ c.si < d.si
        \/ c.si = d.si /\ sc < sd
        \/ /\ c.si = d.si /\ sc = sd
           /\ sc = 4 => c.ci <= d.ci
           /\ sc \in {5, 6} => c.ci < d.ci
           /\ sc \notin {1, 2, 7}

\* C22: within the reconstruction of one sheet the steps occur in the fixed
\* order creation, visibility, column widths and row heights, cells in
\* declaration order, merges in order, data validations in order, protection:
\* every sheet call is in order with its successor (hence with every later
\* call: geometry before cells, cells before merges, merges before validations
\* and protection), and a cell, merge or validation call at position n is for
\* the n-th cell, merge or validation of the sheet.
C22_SheetStepsInFixedOrder ==
    \A r \in Runs :
        /\ \A i \in 1..(Len(calls[r]) - 1) :
             InStepOrder(calls[r][i], calls[r][i + 1])
        /\ \A i \in Idx(r) :
             LET c == calls[r][i]
                 step == StepOf(c)
             IN  /\ step = 4 =>
                      /\ c.ci \in CellsOf(c.si)
                      /\ c.name = CellAt(c.si, c.ci).Address
                 /\ step = 5 =>
                      /\ c.ci \in 1..Len(metadata.Sheets[c.si].MergedCells)
                      /\ c.name = metadata.Sheets[c.si].MergedCells[c.ci].StartCell
                 /\ step = 6 =>
                      /\ c.ci \in 1..Len(metadata.Sheets[c.si].DataValidations)
                      /\ c.name = metadata.Sheets[c.si].DataValidations[c.ci].Range

\* A finished run in which a sheet went through every step, with two cells
\* and two validations.
C22_Witness ==
    \E r \in Runs : \E k \in Positions :
        /\ Succeeded(r)
        /\ \A st \in 1..7 : \E i \in Idx(r) : calls[r][i].si = k /\ StepOf(calls[r][i]) = st
        /\ \E i, j \in Idx(r) :
             /\ calls[r][i].op = "SetColWidth" /\ calls[r][j].op = "SetRowHeight"
             /\ calls[r][i].si = k /\ calls[r][j].si = k
        /\ \E i, j \in Idx(r) :
             /\ StepOf(calls[r][i]) = 4 /\ StepOf(calls[r][j]) = 4
             /\ calls[r][i].si = k /\ calls[r][j].si = k
             /\ calls[r][i].ci = 1 /\ calls[r][j].ci = 2
        /\ Issued(r, "AddDataValidation", k, 2)

\* Run r is past its style phase.
StylePhaseOver(r) == pc[r] \notin {"props", "styles"}

\* Run r issued the content write the cell at position c of sheet k calls for.
ContentWritten(r, k, c) ==
    /\ WritesFormula(CellAt(k, c)) => Issued(r, "SetCellFormula", k, c)
    /\ WritesValue(CellAt(k, c)) => \E op \in TypedOps : Issued(r, op, k, c)

\* C23: a style whose registration the collaborator rejects is absent from
\* the remap table, and every other style is still submitted (and is in the
\* table when accepted); a cell whose style identifier is absent from the
\* table gets no style operation, while its content and its hyperlink are
\* still written, and the rejection does not make Recreate return an error.
\* The table's keys are metadata style keys, and once the style phase is over
\* no step changes the table.
C23_RejectedStyleIsOmitted ==
    /\ [](\A r \in Runs :
            /\ DOMAIN styleMap[r] \subseteq DOMAIN metadata.Styles
            /\ \A i \in Idx(r) :
                 LET c == calls[r][i] IN
                 /\ (c.op = "NewStyle" /\ ~c.ok) => c.id \notin DOMAIN styleMap[r]
                 /\ (c.op = "NewStyle" /\ c.ok) =>
                      c.id \in DOMAIN styleMap[r] /\ styleMap[r][c.id] = c.ret
                 /\ c.op = "SetCellStyle" => CellOf(c).StyleID \in DOMAIN styleMap[r]
            /\ (/\ StylePhaseOver(r) /\ StylesWanted
                /\ ~\E i \in Idx(r) : calls[r][i].op = "SetDocProps" /\ ~calls[r][i].ok) =>
                 \A oldID \in DOMAIN metadata.Styles :
                     \E i \in Idx(r) : calls[r][i].op = "NewStyle" /\ calls[r][i].id = oldID
            /\ (Done(r) /\ ~FatalFailure(r)) =>
                 /\ err[r] = NoError
                 /\ \A k \in Positions : \A c \in CellsOf(k) :
                      (~SkipCell(CellAt(k, c)) /\ CellAt(k, c).StyleID \notin DOMAIN styleMap[r])
                          => /\ ~Issued(r, "SetCellStyle", k, c)
                             /\ ContentWritten(r, k, c)
                             /\ HasHyperlink(CellAt(k, c)) => Issued(r, "SetCellHyperLink", k, c))
    /\ [][\A r \in Runs : StylePhaseOver(r) => styleMap'[r] = styleMap[r]]_vars

\* A run that returned nil after the registration of style 2 was rejected and
\* that of style 1 accepted, over a cell that references style 2 and carries
\* content and a hyperlink.
C23_Witness ==
    \E r \in Runs :
        /\ Succeeded(r)
        /\ \E i \in Idx(r) : calls[r][i].op = "NewStyle" /\ ~calls[r][i].ok /\ calls[r][i].id = 2
        /\ DOMAIN styleMap[r] = {1}
        /\ \E k \in Positions : \E c \in CellsOf(k) :
             /\ CellAt(k, c).StyleID = 2
             /\ Issued(r, "SetCellFormula", k, c)
             /\ Issued(r, "SetCellHyperLink", k, c)
             /\ ~Issued(r, "SetCellStyle", k, c)

\* The descriptor the collaborator holds for an accepted NewStyle call: the
\* one that call submitted.
Submitted(r, c) == file[r].styles[c.ret]

\* C24: with PreserveStyles every entry of the style mapping is submitted to
\* the collaborator exactly once, the entries with all sub-records empty
\* included, and the descriptor submitted holds each sub-record (font, fill,
\* borders, alignment, numeric format, protection) exactly when the metadata
\* entry holds it: a present fill is copied with its type, pattern and
\* colours, an absent fill gives no fill.  Stated for the runs in which the
\* collaborator accepted every call.
C24_DescriptorCopiesPresentSubRecords ==
    \A r \in Runs :
        (NoRejection(r) /\ options.PreserveStyles) =>
            /\ StylePhaseOver(r) =>
                 \A oldID \in DOMAIN metadata.Styles :
                     Cardinality({ i \in Idx(r) : /\ calls[r][i].op = "NewStyle"
                                                  /\ calls[r][i].id = oldID }) = 1
            /\ \A i \in Idx(r) :
                 LET c == calls[r][i]
                     styleMeta == metadata.Styles[c.id]
                 IN  c.op = "NewStyle" =>
                         /\ Submitted(r, c).Font = styleMeta.Font
                         /\ Submitted(r, c).Fill = styleMeta.Fill
                         /\ Submitted(r, c).Border = styleMeta.Border
                         /\ Submitted(r, c).Alignment = styleMeta.Alignment
                         /\ Submitted(r, c).NumFmt = styleMeta.NumberFormat
                         /\ Submitted(r, c).Protection = styleMeta.Protection

ContentOps == TypedOps \cup {"SetCellFormula"}

\* The positions in run r's log of the content writes for cell c of sheet k.
ContentWrites(r, k, c) ==
    { i \in Idx(r) : calls[r][i].op \in ContentOps /\ calls[r][i].si = k /\ calls[r][i].ci = c }

\* C25: a cell gets at most one content write: a formula write exactly when
\* its formula is non-empty and PreserveFormulas is set; otherwise one
\* typed-value write when it has a value; otherwise none.  No cell gets a
\* formula write and a value write, or two value writes.
C25_AtMostOneContentWrite ==
    \A r \in Runs :
        /\ \A i \in Idx(r) :
             LET c == calls[r][i]
                 wantsFormula == CellOf(c).Formula # "" /\ options.PreserveFormulas
             IN  c.op \in ContentOps =>
                     /\ ContentWrites(r, c.si, c.ci) = {i}
                     /\ c.op = "SetCellFormula" <=> wantsFormula
                     /\ c.op \in TypedOps <=> (~wantsFormula /\ CellOf(c).Value.kind # "nil")
        /\ Succeeded(r) =>
             \A k \in Positions : \A c \in CellsOf(k) :
                 LET cell == CellAt(k, c)
                     wantsFormula == cell.Formula # "" /\ options.PreserveFormulas
                 IN  ~SkipCell(cell) =>
                         Cardinality(ContentWrites(r, k, c))
                           = IF wantsFormula \/ cell.Value.kind # "nil" THEN 1 ELSE 0

\* A finished run without PreserveFormulas over a cell with a formula and a
\* value (one typed write) and a cell with a formula only (no content write,
\* its hyperlink written).
C25_Witness ==
    \E r \in Runs :
        /\ Succeeded(r) /\ ~options.PreserveFormulas
        /\ \E k \in Positions : \E c, d \in CellsOf(k) :
             /\ CellAt(k, c).Formula # "" /\ CellAt(k, c).Value.kind # "nil"
             /\ \E op \in TypedOps : Issued(r, op, k, c)
             /\ CellAt(k, d).Formula # "" /\ CellAt(k, d).Value.kind = "nil"
             /\ ContentWrites(r, k, d) = {}
             /\ Issued(r, "SetCellHyperLink", k, d)

\* The place of a cell operation among the operations of its cell: content
\* write, style, hyperlink.
CellRank(c) ==
    CASE c.op \in ContentOps -> 1
      [] c.op = "SetCellStyle" -> 2
      [] c.op = "SetCellHyperLink" -> 3
      [] OTHER -> 0

\* Run r has left cell c of sheet k behind: it is past the cell's hyperlink
\* statement, or it returned nil, or it returned an error from a later place
\* (its last call is the one that failed).
Passed(r, k, c) ==
    IF pc[r] = "done"
    THEN \/ err[r] = NoError
         \/ LET failed == calls[r][Len(calls[r])] IN
             \/ failed.op = "SetDefinedName"
             \/ failed.op \in {"NewSheet", "SetCellFormula"} /\ failed.si > k
             \/ failed.op = "SetCellFormula" /\ failed.si = k /\ failed.ci > c
    ELSE \/ si[r] > k
         \/ /\ si[r] = k
            /\ \/ pc[r] \in {"merges", "validations", "protection"}
               \/ pc[r] \in {"cells", "cellstyle", "celllink"} /\ ci[r] > c

\* C26: for every cell that is not skipped as empty and whose content write
\* did not fail fatally, the style is applied exactly when PreserveStyles is
\* set, the StyleID is non-zero and it is in the remap table, after the content
\* write and before the hyperlink (the operations of a cell are consecutive
\* and in that order); and a hyperlink that is present is written whatever
\* PreserveFormulas, PreserveStyles and PreserveDataValidation are, also for a
\* cell whose only content is a formula while PreserveFormulas is off.
C26_StyleThenHyperlinkWhateverOptions ==
    \A r \in Runs :
        /\ \A i \in 1..(Len(calls[r]) - 1) :
             LET c == calls[r][i]
                 d == calls[r][i + 1]
             IN  (CellRank(c) > 0 /\ CellRank(d) > 0) =>
                     IF c.si = d.si /\ c.ci = d.ci
                     THEN CellRank(c) < CellRank(d)
                     ELSE c.si < d.si \/ (c.si = d.si /\ c.ci < d.ci)
        /\ \A i \in Idx(r) :
             calls[r][i].op = "SetCellStyle" =>
                 /\ options.PreserveStyles
                 /\ CellOf(calls[r][i]).StyleID # 0
                 /\ CellOf(calls[r][i]).StyleID \in DOMAIN styleMap[r]
        /\ \A k \in Positions : \A c \in CellsOf(k) :
             LET cell == CellAt(k, c) IN
             (/\ Passed(r, k, c)
              /\ ~(options.SkipEmptyCells /\ cell.Value.kind = "nil" /\ cell.Formula = ""))
                 => /\ (/\ options.PreserveStyles /\ cell.StyleID # 0
                         /\ cell.StyleID \in DOMAIN styleMap[r])
                          => Issued(r, "SetCellStyle", k, c)
                    /\ ~IsNil(cell.Hyperlink) => Issued(r, "SetCellHyperLink", k, c)

\* A finished run with PreserveFormulas and PreserveDataValidation off over a
\* cell that got its value, its style and its hyperlink, and a cell whose only
\* content is a formula: no content write, its hyperlink written.
C26_Witness ==
    \E r \in Runs :
        /\ Succeeded(r)
        /\ ~options.PreserveFormulas /\ ~options.PreserveDataValidation
        /\ \E k \in Positions : \E c, d \in CellsOf(k) :
             /\ \E op \in TypedOps : Issued(r, op, k, c)
             /\ Issued(r, "SetCellStyle", k, c)
             /\ Issued(r, "SetCellHyperLink", k, c)
             /\ CellAt(k, d).Formula # "" /\ CellAt(k, d).Value.kind = "nil"
             /\ ContentWrites(r, k, d) = {}
             /\ ~Issued(r, "SetCellStyle", k, d)
             /\ Issued(r, "SetCellHyperLink", k, d)

\* The cell key of a logged cell call in the workbook.
KeyOf(c) == << ResolvedName(c.si), c.name >>

\* What every call the collaborator accepted has put into the workbook of run
\* r is in it.
EffectsRemain(r) ==
    \A i \in Idx(r) :
        LET c == calls[r][i]
            f == GetFile(r)
        IN  c.ok =>
            /\ c.op = "SetDocProps" => f.props = Some(metadata.Properties)
            /\ c.op = "NewStyle" =>
                 /\ c.ret \in 1..Len(f.styles)
                 /\ f.styles[c.ret] = BuildStyle(metadata.Styles[c.id])
            /\ c.op = "NewSheet" => \E n \in 1..Len(f.sheets) : f.sheets[n] = c.name
            /\ c.op = "SetColWidth" => << ResolvedName(c.si), c.name >> \in DOMAIN f.colWidths
            /\ c.op = "SetRowHeight" => << ResolvedName(c.si), c.id >> \in DOMAIN f.rowHeights
            /\ c.op = "SetCellFormula" =>
                 KeyOf(c) \in DOMAIN f.formulas /\ f.formulas[KeyOf(c)] = CellOf(c).Formula
            /\ c.op \in TypedOps => KeyOf(c) \in DOMAIN f.values
            /\ c.op = "SetCellStyle" =>
                 KeyOf(c) \in DOMAIN f.cellStyles /\ f.cellStyles[KeyOf(c)] = c.id
            /\ c.op = "SetCellHyperLink" => KeyOf(c) \in DOMAIN f.links
            /\ c.op = "MergeCell" =>
                 \E n \in 1..Len(f.merges) : /\ f.merges[n][1] = ResolvedName(c.si)
                                              /\ f.merges[n][2] = c.name
            /\ c.op = "AddDataValidation" =>
                 \E n \in 1..Len(f.validations) :
                     /\ f.validations[n][1] = ResolvedName(c.si)
                     /\ f.validations[n][2].Range = c.name
            /\ c.op = "ProtectSheet" => ResolvedName(c.si) \in DOMAIN f.protection
            /\ c.op = "SetDefinedName" =>
                 \E n \in 1..Len(f.names) : f.names[n].Name = c.name

Failed(r) == Done(r) /\ err[r] # NoError

\* C27: Recreate does not roll back on a fatal error.  When it has returned an
\* error the workbook holds what every accepted call before the failing one
\* put into it; the step that returns the error, and every step after it,
\* leaves the workbook and the remap table as they were; the workbook is the
\* one GetFile returns, Save can still be called on it, and an accepted Save
\* writes that workbook.
C27_NoRollbackOnFatalError ==
    /\ [](\A r \in Runs :
            /\ EffectsRemain(r)
            /\ (Failed(r) /\ saved[r] = Nil) => ENABLED Save(r)
            /\ (saved[r] # Nil /\ Deref(saved[r]).ok) =>
                 Deref(saved[r]).workbook = Some(GetFile(r)))
    /\ [][\A r \in Runs :
             Failed(r)' => (file'[r] = file[r] /\ styleMap'[r] = styleMap[r])]_vars

\* A run that returned an error from a formula write on its second sheet and
\* was then saved: the saved workbook holds the styles, both sheets and the
\* cells of the first sheet.
C27_Witness ==
    \E r \in Runs :
        /\ Failed(r)
        /\ calls[r][Len(calls[r])].op = "SetCellFormula" /\ calls[r][Len(calls[r])].si = 2
        /\ saved[r] # Nil /\ Deref(saved[r]).ok
        /\ LET w == Deref(Deref(saved[r]).workbook) IN
             /\ Len(w.styles) = 2
             /\ \A k \in Positions : \E n \in 1..Len(w.sheets) : w.sheets[n] = ResolvedName(k)
             /\ << ResolvedName(1), "B2" >> \in DOMAIN w.formulas
             /\ << ResolvedName(1), "A1" >> \in DOMAIN w.values
             /\ << ResolvedName(2), "B2" >> \notin DOMAIN w.formulas
             /\ Len(w.merges) = 1

=============================================================================
